---- MODULE Spec2Model ----
(***************************************************************************)
(* Theatre-troupe management application: the data-access layer            *)
(* (src/src/database/connection.py, class DatabaseManager), the Excel      *)
(* report loader (src/src/export_to_xlsx.py) and the delete handler of the *)
(* UI (src/src/main.py).                                                    *)
(*                                                                         *)
(* Three specifications share the module:                                    *)
(*   SpecQuery  the query composer (_select_all, _search_records) applied  *)
(*              to bounded inputs, with the store's evaluation of the      *)
(*              statement it builds;                                       *)
(*   Spec       the coroutines of the background event loop: the lock,     *)
(*              execute_query with its retries, the set_* transactions,    *)
(*              and the delete handler of the UI;                          *)
(*   SpecExport the same coroutines beside the two tasks of the Excel      *)
(*              loader, which runs in an executor thread.                  *)
(***************************************************************************)
EXTENDS Integers, Sequences, FiniteSets, TLC

VARIABLES
    table,      \* rows of the queried entity's source (of the entity tables,
                \* under SpecWrite), as the store holds them
    qcall,      \* the List/Search call being served
    qstmt,      \* the statement handed to execute_query
    qres,       \* what the call returned
    qlog,       \* the commands the call sent to the store, in order
    pool,       \* DatabaseManager.pool: "unset" (None) or "open"
    lockHolder, \* the coroutine holding DatabaseManager._lock, or "free"
    lockq,      \* the coroutines waiting for the lock, first come first
    pc,         \* where each coroutine of the background loop stands
    op,         \* the DatabaseManager call each coroutine is running
    att,        \* execute_query's loop variable attempt
    sent,       \* how often the call's statement went to the store
    slept,      \* how often the call waited asyncio.sleep(0.1)
    lastErr,    \* the exception the latest store call raised
    res,        \* what the call returned or raised
    pre,        \* the owner's association set when the transaction began
    txn,        \* the uncommitted changes of the call's connection
    links,      \* committed rows of the association tables
    actors,     \* ids of the committed rows of table actor
    faults,     \* transient store failures so far
    lpc,        \* where each task of the Excel loader stands
    lleft,      \* statements the loader task has still to issue
    ui,         \* the message the handler showed last
    submitted,  \* the tasks whose statement was submitted, in submission order
    gui,        \* the GUI thread: the coroutine whose future it waits on, and
                \* the coroutines whose wait it gave up
    edit,       \* the actor edit under way (update_actor_with_connections)
    vcheck,     \* the validator call made last: its argument and its verdict
    boot,       \* run_event_loop's progress, db_initialized, run_async's return
    sample,     \* get_sample_data: the gathered results so far and what it returned
    rf,         \* the dashboard: _refresh_in_progress, filters, the in-memory
                \* mirror and the refresh_all_data coroutines
    srch,       \* the searches of a table view: their calls queued on the lock
                \* and the grid updates applied
    adding      \* the add of a play with authors or a production with cast

qvars == <<table, qcall, qstmt, qres, qlog>>
yvars == <<vcheck, boot, sample, rf, srch, adding>>
xvars == <<submitted, gui, edit, yvars>>
cvars == <<pool, lockHolder, lockq, pc, op, att, sent, slept, lastErr, res, pre,
           txn, links, actors, faults, lpc, lleft, ui, xvars>>
vars == <<qvars, cvars>>

(***************************************************************************)
(* Bounds of the query inputs.                                             *)
(***************************************************************************)
MaxTextLen == 2
NumRows == 2

\* Python's None, as a search text and as a sort column.
NoneText == <<"<None>">>
NoneCol == "<None>"

\* Characters of search texts (with the LIKE metacharacters) and of stored values.
TextChars == {"a", "%", "_"}
RowValues == { << <<"A", "b">>, <<"b">> >>,
               << <<"_", "b">>, <<"a", "%">> >> }

RECURSIVE SeqsUpTo(_, _)
SeqsUpTo(S, n) ==
    IF n = 0 THEN {<<>>}
    ELSE LET shorter == SeqsUpTo(S, n - 1)
         IN  shorter \cup {Append(s, c) : s \in shorter, c \in S}

SearchTexts == SeqsUpTo(TextChars, MaxTextLen) \cup {NoneText}
SortRequests == {NoneCol, "", "id", "title", "city", "1; DROP TABLE actor"}
TableKeys == {"actors", "authors", "directors", "plays", "productions",
              "performances", "rehearsals", "roles", "theatres", "locations"}
RequestedKeys == TableKeys \cup {"tickets"}

(***************************************************************************)
(* The table registry.                                                     *)
(***************************************************************************)
TABLE_CONFIG ==
    [k \in TableKeys |->
      CASE k = "actors" ->
        [from |-> "actor a", select |-> "a.*", joins |-> "",
         orderable |-> [id |-> "a.id", full_name |-> "a.full_name",
                        experience |-> "a.experience"],
         default_sort |-> "id",
         searchable |-> <<"a.full_name", "a.experience">>]
      [] k = "authors" ->
        [from |-> "author a", select |-> "a.*", joins |-> "",
         orderable |-> [id |-> "a.id", full_name |-> "a.full_name",
                        biography |-> "a.biography"],
         default_sort |-> "id",
         searchable |-> <<"a.full_name", "a.biography">>]
      [] k = "directors" ->
        [from |-> "director d", select |-> "d.*", joins |-> "",
         orderable |-> [id |-> "d.id", full_name |-> "d.full_name",
                        biography |-> "d.biography"],
         default_sort |-> "id",
         searchable |-> <<"d.full_name", "d.biography">>]
      [] k = "plays" ->
        [from |-> "play p", select |-> "p.*", joins |-> "",
         orderable |-> [id |-> "p.id", title |-> "p.title", genre |-> "p.genre",
                        year_written |-> "p.year_written",
                        description |-> "p.description"],
         default_sort |-> "id",
         searchable |-> <<"p.title", "p.genre", "p.description">>]
      [] k = "productions" ->
        [from |-> "production p", select |-> "p.*", joins |-> "",
         orderable |-> [id |-> "p.id", title |-> "p.title",
                        production_date |-> "p.production_date",
                        description |-> "p.description"],
         default_sort |-> "id",
         searchable |-> <<"p.title", "p.description">>]
      [] k = "performances" ->
        [from |-> "performance p",
         select |-> "p.*, t.name AS theatre_name, l.hall_name, pr.title AS production_title",
         joins |-> "JOIN location l ON p.location_id = l.id JOIN theatre t ON l.theatre_id = t.id JOIN production pr ON p.production_id = pr.id",
         orderable |-> [id |-> "p.id", datetime |-> "p.datetime"],
         default_sort |-> "id",
         searchable |-> <<"CAST(p.datetime AS CHAR)", "t.name", "l.hall_name", "pr.title">>]
      [] k = "rehearsals" ->
        [from |-> "rehearsal r",
         select |-> "r.*, t.name AS theatre_name, l.hall_name, pr.title AS production_title",
         joins |-> "JOIN location l ON r.location_id = l.id JOIN theatre t ON l.theatre_id = t.id JOIN production pr ON r.production_id = pr.id",
         orderable |-> [id |-> "r.id", datetime |-> "r.datetime"],
         default_sort |-> "id",
         searchable |-> <<"CAST(r.datetime AS CHAR)", "t.name", "l.hall_name", "pr.title">>]
      [] k = "roles" ->
        [from |-> "role r", select |-> "r.*, p.title AS play_title",
         joins |-> "LEFT JOIN play p ON r.play_id = p.id",
         orderable |-> [id |-> "r.id", title |-> "r.title",
                        description |-> "r.description"],
         default_sort |-> "id",
         searchable |-> <<"r.title", "r.description", "p.title">>]
      [] k = "theatres" ->
        [from |-> "theatre t", select |-> "t.*", joins |-> "",
         orderable |-> [id |-> "t.id", name |-> "t.name", city |-> "t.city",
                        street |-> "t.street", house_number |-> "t.house_number",
                        postal_code |-> "t.postal_code"],
         default_sort |-> "name",
         searchable |-> <<"t.name", "t.city", "t.street", "t.house_number", "t.postal_code">>]
      [] OTHER ->
        [from |-> "location l",
         select |-> "l.*, t.name AS theatre_name, t.city, t.street, t.house_number, t.postal_code",
         joins |-> "JOIN theatre t ON l.theatre_id = t.id",
         orderable |-> [id |-> "l.id", theatre_name |-> "t.name",
                        hall_name |-> "l.hall_name", capacity |-> "l.capacity"],
         default_sort |-> "hall_name",
         searchable |-> <<"t.name", "l.hall_name", "t.city", "t.street", "t.house_number", "t.postal_code">>]]

\* TABLE_CONFIG.get(key): the declaration, or nothing for an unknown name.
HasTableConfig(key) == key \in DOMAIN TABLE_CONFIG

\* A declaration whose default sort key is missing from its orderable map.
ConfigWithUndeclaredDefault(key) == [TABLE_CONFIG[key] EXCEPT !.default_sort = "created_at"]

\* The declaration every composer works from.
_get_table_config(key) == TABLE_CONFIG[key]

\* The orderable expressions an entity declares.
OrderExprs(config) == {config.orderable[c] : c \in DOMAIN config.orderable}

(***************************************************************************)
(* The query composer.                                                     *)
(***************************************************************************)
\* Python truthiness of a sort column and of a search text.
ColOrDefault(config, sort_column) ==
    IF sort_column = NoneCol \/ sort_column = "" THEN config.default_sort
    ELSE sort_column

TextIsEmpty(search_text) == search_text = NoneText \/ search_text = <<>>

\* A caller's column used as written (what _resolve_sort_column prevents).
ResolveSortColumnRaw(config, sort_column) == sort_column

_resolve_sort_column(config, sort_column) ==
    LET orderable == config.orderable
        fallback == config.default_sort
        column_key == IF sort_column \in DOMAIN orderable THEN sort_column
                      ELSE fallback
    IN  orderable[column_key]

\* SQL text is kept as the sequence of the pieces the f-strings join.
_build_base_query(config) ==
    LET query == <<"SELECT", config.select, "FROM", config.from>>
    IN  IF config.joins /= "" THEN Append(query, config.joins) ELSE query

\* A direction that ignores the caller's flag.
AlwaysAscending(sort_ascending) == "ASC"

Direction(sort_ascending) == IF sort_ascending THEN "ASC" ELSE "DESC"

\* The statement _select_all hands to execute_query.
SelectAllStmt(key, sort_column, sort_ascending, force_refresh) ==
    LET config == _get_table_config(key)
        order_expr == _resolve_sort_column(config, ColOrDefault(config, sort_column))
    IN  [sql |-> _build_base_query(config)
                 \o <<"ORDER BY", order_expr, Direction(sort_ascending)>>,
         args |-> <<>>,
         force_refresh |-> force_refresh]

Pattern(search_text) == <<"%">> \o search_text \o <<"%">>

RECURSIVE WhereClause(_)
WhereClause(exprs) ==
    IF exprs = <<>> THEN <<>>
    ELSE IF Len(exprs) = 1 THEN <<Head(exprs), "LIKE", "%s">>
    ELSE <<Head(exprs), "LIKE", "%s", "OR">> \o WhereClause(Tail(exprs))

\* A search that filters even on an empty text (what the early return prevents).
SearchStmtNoEarlyReturn(key, search_text, sort_column, sort_ascending, force_refresh) ==
    LET config == _get_table_config(key)
        pattern == Pattern(IF search_text = NoneText THEN <<"None">> ELSE search_text)
        where_clause == WhereClause(config.searchable)
        order_expr == _resolve_sort_column(config, ColOrDefault(config, sort_column))
    IN  [sql |-> _build_base_query(config) \o <<"WHERE">> \o where_clause
                 \o <<"ORDER BY", order_expr, Direction(sort_ascending)>>,
         args |-> [i \in 1..Len(config.searchable) |-> pattern],
         force_refresh |-> force_refresh]

\* A search whose text is written into the SQL (what the bound parameters prevent).
SearchStmtInterpolated(key, search_text, sort_column, sort_ascending, force_refresh) ==
    LET config == _get_table_config(key)
    IN  IF TextIsEmpty(search_text)
        THEN SelectAllStmt(key, sort_column, sort_ascending, force_refresh)
        ELSE [sql |-> _build_base_query(config) \o <<"WHERE">>
                      \o <<config.searchable[1], "LIKE">> \o Pattern(search_text)
                      \o <<"ORDER BY",
                           _resolve_sort_column(config, ColOrDefault(config, sort_column)),
                           Direction(sort_ascending)>>,
              args |-> <<>>,
              force_refresh |-> force_refresh]

\* The statement _search_records hands to execute_query.
SearchStmt(key, search_text, sort_column, sort_ascending, force_refresh) ==
    IF TextIsEmpty(search_text)
    THEN SelectAllStmt(key, sort_column, sort_ascending, force_refresh)
    ELSE LET config == _get_table_config(key)
             pattern == Pattern(search_text)
             where_clause == WhereClause(config.searchable)
             order_expr == _resolve_sort_column(config, ColOrDefault(config, sort_column))
         IN  [sql |-> _build_base_query(config) \o <<"WHERE">> \o where_clause
                      \o <<"ORDER BY", order_expr, Direction(sort_ascending)>>,
              args |-> [i \in 1..Len(config.searchable) |-> pattern],
              force_refresh |-> force_refresh]

(***************************************************************************)
(* The store's evaluation of a composed statement (cur.execute followed by *)
(* cur.fetchall).  A row carries its id and two text attributes; a column  *)
(* expression of the source reads one of them.                             *)
(***************************************************************************)
RECURSIVE IndexFrom(_, _, _)
IndexFrom(seq, x, i) ==
    IF i > Len(seq) THEN 0
    ELSE IF seq[i] = x THEN i
    ELSE IndexFrom(seq, x, i + 1)

IndexOf(seq, x) == IndexFrom(seq, x, 1)

SeqRange(seq) == {seq[i] : i \in 1..Len(seq)}

\* The registry entry whose FROM expression the statement names.
SourceKey(sql) == CHOOSE k \in TableKeys : TABLE_CONFIG[k].from = sql[4]

IsIdExpr(config, expr) == expr = config.orderable["id"]

AttrOf(config, expr) ==
    LET i == IndexOf(config.searchable, expr)
    IN  IF i = 0 THEN 1 ELSE ((i - 1) % 2) + 1

ColValue(config, row, expr) == row.f[AttrOf(config, expr)]

\* The connection's collation compares letters without regard to case.
Lower(ch) ==
    CASE ch = "A" -> "a"
      [] ch = "B" -> "b"
      [] ch = "L" -> "l"
      [] ch = "O" -> "o"
      [] ch = "P" -> "p"
      [] OTHER -> ch

CharOrd(ch) ==
    CASE ch = "%" -> 37
      [] ch = "a" -> 65
      [] ch = "b" -> 66
      [] ch = "i" -> 73
      [] ch = "l" -> 76
      [] ch = "m" -> 77
      [] ch = "o" -> 79
      [] ch = "p" -> 80
      [] ch = "r" -> 82
      [] ch = "s" -> 83
      [] ch = "_" -> 95
      [] OTHER -> 127

\* SQL LIKE: '%' matches any run of characters, '_' any one character, and a
\* backslash (the default ESCAPE character) makes the character after it
\* stand for itself.
RECURSIVE LikeFrom(_, _, _, _)
LikeFrom(v, i, p, j) ==
    IF j > Len(p) THEN i > Len(v)
    ELSE IF p[j] = "\\" /\ j < Len(p)
         THEN i <= Len(v) /\ Lower(v[i]) = Lower(p[j + 1])
              /\ LikeFrom(v, i + 1, p, j + 2)
    ELSE IF p[j] = "%"
         THEN LikeFrom(v, i, p, j + 1)
              \/ (i <= Len(v) /\ LikeFrom(v, i + 1, p, j))
    ELSE IF p[j] = "_"
         THEN i <= Len(v) /\ LikeFrom(v, i + 1, p, j + 1)
    ELSE i <= Len(v) /\ Lower(v[i]) = Lower(p[j]) /\ LikeFrom(v, i + 1, p, j + 1)

Like(v, p) == LikeFrom(v, 1, p, 1)

\* Ordering of two rows under ORDER BY expr ASC|DESC; equal keys keep the
\* order of the primary key.
RECURSIVE TextLess(_, _, _)
TextLess(v, w, i) ==
    IF i > Len(w) THEN FALSE
    ELSE IF i > Len(v) THEN TRUE
    ELSE IF CharOrd(Lower(v[i])) /= CharOrd(Lower(w[i]))
         THEN CharOrd(Lower(v[i])) < CharOrd(Lower(w[i]))
    ELSE TextLess(v, w, i + 1)

KeyLess(config, expr, r1, r2) ==
    IF IsIdExpr(config, expr) THEN r1.id < r2.id
    ELSE TextLess(ColValue(config, r1, expr), ColValue(config, r2, expr), 1)

RowBefore(config, expr, dir, r1, r2) ==
    LET lt == KeyLess(config, expr, r1, r2)
        gt == KeyLess(config, expr, r2, r1)
    IN  IF dir = "ASC" THEN lt \/ (~gt /\ r1.id < r2.id)
        ELSE gt \/ (~lt /\ r1.id < r2.id)

RECURSIVE SortRows(_, _, _, _)
SortRows(config, expr, dir, rows) ==
    IF rows = {} THEN <<>>
    ELSE LET first == CHOOSE r \in rows :
                        \A o \in rows \ {r} : RowBefore(config, expr, dir, r, o)
         IN  <<first>> \o SortRows(config, expr, dir, rows \ {first})

\* Number of %s placeholders of a statement.
Placeholders(sql) == Cardinality({i \in 1..Len(sql) : sql[i] = "%s"})

StoreSelect(stmt, rows) ==
    LET sql == stmt.sql
        config == TABLE_CONFIG[SourceKey(sql)]
        known == OrderExprs(config) \cup SeqRange(config.searchable)
        w == IndexOf(sql, "WHERE")
        o == IndexOf(sql, "ORDER BY")
        first == IF w = 0 THEN o ELSE w
        n == IF w = 0 THEN 0 ELSE (o - w) \div 4
        CondExpr(k) == sql[w + 4 * (k - 1) + 1]
        wellFormed ==
            /\ o > 0 /\ Len(sql) = o + 2
            /\ sql[o + 1] \in known
            /\ sql[o + 2] \in {"ASC", "DESC"}
            /\ w /= 0 => /\ w < o /\ (o - w) % 4 = 0
                         /\ \A k \in 1..n :
                              /\ CondExpr(k) \in known
                              /\ sql[w + 4 * (k - 1) + 2] = "LIKE"
                              /\ sql[w + 4 * (k - 1) + 3] = "%s"
                              /\ k < n => sql[w + 4 * k] = "OR"
        Matches(r) == \E k \in 1..n :
                         Like(ColValue(config, r, CondExpr(k)), stmt.args[k])
        hits == IF w = 0 THEN rows ELSE {r \in rows : Matches(r)}
    IN  IF ~wellFormed THEN [kind |-> "error", error |-> "ProgrammingError", rows |-> <<>>]
        ELSE IF Len(stmt.args) /= Placeholders(sql)
             THEN [kind |-> "error", error |-> "TypeError", rows |-> <<>>]
        ELSE [kind |-> "rows", error |-> "",
              rows |-> SortRows(config, sql[o + 1], sql[o + 2], hits)]

(***************************************************************************)
(* The association tables and the store's referential integrity.           *)
(* A row is <<table, x, y>>: actor_rehearsal (actor_id, rehearsal_id),     *)
(* author_play (author_id, play_id), actor_role ((actor_id, role_id),      *)
(* production_id).                                                         *)
(***************************************************************************)
MaxFaults == 3
max_retries == 3
NumAnalyticsQueries == 5

Coros == {"c1", "c2"}
\* With a coroutine of another task, for the specifications that run three.
AllCoros == Coros \cup {"c3"}
Loaders == {"productions_task", "analytics_task"}
Ids == {1, 2}
CastPairs == {<<1, 1>>, <<2, 2>>}

SetOps == {"set_rehearsal_actors", "set_play_authors", "set_author_plays",
           "set_production_cast"}
GetOps == {"get_actors_for_rehearsal", "get_authors_for_play",
           "get_plays_for_author", "get_cast_for_production"}

InitLinks == {<<"actor_rehearsal", 1, 1>>, <<"author_play", 1, 1>>,
              <<"author_play", 2, 2>>, <<"actor_role", <<1, 1>>, 1>>,
              <<"actor_production", 1, 1>>}

\* A DELETE without the owner in its WHERE clause: every row of the table.
DeleteIgnoringOwner(rows, name, owner) ==
    CASE name \in {"set_rehearsal_actors", "get_actors_for_rehearsal"} ->
           {r \in rows : r[1] = "actor_rehearsal"}
      [] name \in {"set_play_authors", "get_authors_for_play", "set_author_plays",
                   "get_plays_for_author"} ->
           {r \in rows : r[1] = "author_play"}
      [] OTHER ->
           {r \in rows : r[1] = "actor_role"}

\* The owner's rows a call deletes (set_*) or selects (get_*).
OwnerRows(rows, name, owner) ==
    CASE name \in {"set_rehearsal_actors", "get_actors_for_rehearsal"} ->
           {r \in rows : r[1] = "actor_rehearsal" /\ r[3] = owner}
      [] name \in {"set_play_authors", "get_authors_for_play"} ->
           {r \in rows : r[1] = "author_play" /\ r[3] = owner}
      [] name \in {"set_author_plays", "get_plays_for_author"} ->
           {r \in rows : r[1] = "author_play" /\ r[2] = owner}
      [] OTHER ->
           {r \in rows : r[1] = "actor_role" /\ r[3] = owner}

MemberOf(name, r) ==
    IF name \in {"set_author_plays", "get_plays_for_author"} THEN r[3] ELSE r[2]

\* What a read of the owner's associations returns, as a set.
ReadAssoc(rows, name, owner) == {MemberOf(name, r) : r \in OwnerRows(rows, name, owner)}

\* tuples_to_insert of the four set_* methods.
TuplesToInsert(name, owner, members) ==
    CASE name = "set_rehearsal_actors" -> {<<"actor_rehearsal", m, owner>> : m \in members}
      [] name = "set_play_authors" -> {<<"author_play", m, owner>> : m \in members}
      [] name = "set_author_plays" -> {<<"author_play", owner, m>> : m \in members}
      [] OTHER -> {<<"actor_role", m, owner>> : m \in members}

\* The reads and the single-row statements of an actor's associations.
ActorGetOps == {"get_actor_roles", "get_actor_rehearsals", "get_actor_productions"}
RemoveLinkOps == {"remove_actor_role", "remove_actor_from_rehearsal",
                  "remove_actor_from_production"}
AddLinkOps == {"add_actor_role", "add_actor_to_rehearsal", "add_actor_to_production"}

\* The actor's rows of the table get_actor_* selects from.
ActorLinks(rows, name, a) ==
    CASE name = "get_actor_roles" -> {r \in rows : r[1] = "actor_role" /\ r[2][1] = a}
      [] name = "get_actor_rehearsals" ->
           {r \in rows : r[1] = "actor_rehearsal" /\ r[2] = a}
      [] OTHER -> {r \in rows : r[1] = "actor_production" /\ r[2] = a}

\* What a SELECT of the association tables returns.
Selected(rows, o) ==
    IF o.name \in ActorGetOps THEN ActorLinks(rows, o.name, o.owner)
    ELSE ReadAssoc(rows, o.name, o.owner)

\* The association rows after the committed statement: DELETE ... WHERE of
\* remove_*, INSERT IGNORE of add_*; any other statement leaves them alone.
LinkResult(rows, o) ==
    IF o.name \in RemoveLinkOps THEN rows \ o.members
    ELSE IF o.name \in AddLinkOps THEN rows \cup o.members
    ELSE rows

MembersOf(name) == IF name = "set_production_cast" THEN CastPairs ELSE Ids

\* The actor a row refers to (rows of author_play refer to none).
RefersToActor(r, a) ==
    \/ r[1] \in {"actor_rehearsal", "actor_production"} /\ r[2] = a
    \/ r[1] = "actor_role" /\ r[2][1] = a

\* The foreign keys of the association rows: an insert must name existing
\* actors, and a referenced actor cannot be deleted.
InsertAllowed(rows, existing) ==
    \A r \in rows : \A a \in Ids : RefersToActor(r, a) => a \in existing

DeleteActorAllowed(rows, a) == ~\E r \in rows : RefersToActor(r, a)

\* The store accepts the statement of execute_query.
StatementAllowed(rows, o) == o.name = "delete_actor" => DeleteActorAllowed(rows, o.owner)

(***************************************************************************)
(* Calls, results and errors.                                              *)
(***************************************************************************)
NoOp == [name |-> "none", owner |-> 0, members |-> {}]
NoErr == [type |-> "none", at |-> <<"none", 0>>]
NoRes == [kind |-> "none", rows |-> {}, error |-> NoErr]
NoTxn == [del |-> {}, ins |-> {}]
NoGui == [waiting |-> "none", abandoned |-> {}]
NoCheck == [validator |-> "none", value |-> [kind |-> "None", text |-> <<>>, n |-> 0],
            ok |-> FALSE]
NoBoot == [stage |-> "created", success |-> FALSE, db_initialized |-> FALSE,
           last |-> "none"]
NoSample == [state |-> "idle", force_refresh |-> FALSE, results |-> <<>>, attempt |-> 0,
             data |-> <<>>, raised |-> FALSE]
RefreshTasks == {"r1", "r2"}
NoRefreshTask == [pc |-> "idle", current_filters |-> "all", issued |-> 0, ret |-> "none"]
Computed(f, v) == [filters |-> f, store |-> v, filled |-> TRUE]
NoRefresh == [flag |-> FALSE, filters |-> "all", store |-> 0,
              requested |-> [filters |-> "all", store |-> 0],
              metrics_data |-> Computed("all", 0),
              line_chart_data |-> Computed("all", 0),
              rehearsals_data |-> Computed("all", 0),
              task |-> [t \in RefreshTasks |-> NoRefreshTask]]
SearchTasks == {"A", "B"}
NoSearchTask == [stage |-> "idle", found |-> FALSE, follow |-> 0, pending |-> 0]
NoSearch == [table_name |-> "none", queue |-> <<>>, applied |-> <<>>, grid |-> "none",
             task |-> [t \in SearchTasks |-> NoSearchTask]]
NoAdding == [state |-> "none", entity |-> "none", stage |-> "none", new_id |-> 0,
             members |-> {}, call |-> NoOp]
NoEdit == [state |-> "none", actor |-> 0, roles_data |-> {}, rehearsal_ids |-> {},
           production_ids |-> {}, current |-> {}, todo |-> <<>>, before |-> {}]

Err(type, step, n) == [type |-> type, at |-> <<step, n>>]
Raise(e) == [kind |-> "raise", rows |-> {}, error |-> e]
ReturnRows(rows) == [kind |-> "rows", rows |-> rows, error |-> NoErr]
ReturnNone == [kind |-> "return", rows |-> {}, error |-> NoErr]

(***************************************************************************)
(* add_* and update_* with their local validation.  Texts are sequences of *)
(* characters; an optional number or id is <<>> for None and <<n>> for n;  *)
(* a date or datetime text is the sequence of the numbers it is written    *)
(* with (<<>> for the empty text).                                         *)
(***************************************************************************)
AddOps == {"add_actor", "add_author", "add_director", "add_play", "add_production",
           "add_performance", "add_rehearsal", "add_role", "add_theatre",
           "add_location"}
UpdateOps == {"update_actor", "update_author", "update_director", "update_play",
              "update_production", "update_performance", "update_rehearsal",
              "update_role", "update_theatre", "update_location"}

IsWrite(o) == o.name \in AddOps \cup UpdateOps

\* The entity an add_* or update_* operation writes.
EntityOf(name) ==
    CASE name \in {"add_actor", "update_actor"} -> "actor"
      [] name \in {"add_author", "update_author"} -> "author"
      [] name \in {"add_director", "update_director"} -> "director"
      [] name \in {"add_play", "update_play"} -> "play"
      [] name \in {"add_production", "update_production"} -> "production"
      [] name \in {"add_performance", "update_performance"} -> "performance"
      [] name \in {"add_rehearsal", "update_rehearsal"} -> "rehearsal"
      [] name \in {"add_role", "update_role"} -> "role"
      [] name \in {"add_theatre", "update_theatre"} -> "theatre"
      [] OTHER -> "location"

\* str.strip()
RECURSIVE StripLeft(_)
StripLeft(s) == IF s /= <<>> /\ Head(s) = " " THEN StripLeft(Tail(s)) ELSE s

RECURSIVE StripRight(_)
StripRight(s) ==
    IF s /= <<>> /\ s[Len(s)] = " " THEN StripRight(SubSeq(s, 1, Len(s) - 1)) ELSE s

Strip(s) == StripRight(StripLeft(s))

\* re.match(r'^[А-ЯЁа-яёA-Za-z\s\-\.,]+$', name)
MatchesNamePattern(s) ==
    /\ s /= <<>>
    /\ \A i \in 1..Len(s) : s[i] \in {"a", "b", "c", "A", "B", " ", "-", ".", ","}

validate_full_name(name) ==
    IF name = NoneText \/ name = <<>> THEN FALSE
    ELSE IF Len(Strip(name)) < 3 \/ Len(Strip(name)) > 255 THEN FALSE
    ELSE MatchesNamePattern(Strip(name))

validate_title(title) ==
    IF title = NoneText \/ title = <<>> THEN FALSE
    ELSE ~(Len(Strip(title)) < 2 \/ Len(Strip(title)) > 255)

\* datetime.now().year while the program runs
CurrentYear == 2026

\* A year check whose upper limit is exclusive.
ValidateYearExcludesLimit(year) ==
    IF year = <<>> THEN TRUE
    ELSE ~(year[1] < 1000 \/ year[1] >= CurrentYear + 10)

validate_year(year) ==
    IF year = <<>> THEN TRUE
    ELSE ~(year[1] < 1000 \/ year[1] > CurrentYear + 10)

\* datetime.strptime(text, layout) for a layout of n numbers: <<>> stands for
\* the ValueError of a text that is not written in the layout.
Strptime(text, n) ==
    IF /\ Len(text) = n
       /\ text[2] \in 1..12
       /\ text[3] \in 1..31
       /\ n = 6 => (text[4] \in 0..23 /\ text[5] \in 0..59 /\ text[6] \in 0..59)
    THEN text
    ELSE <<>>

\* min <= parsed <= max, the limits being the first instant of 1900 and the
\* last of 2100.
WithinCalendar(parsed) == ~(parsed[1] < 1900 \/ parsed[1] > 2100)

validate_date(date_str) ==
    IF date_str = <<>> THEN TRUE
    ELSE IF Strptime(date_str, 3) = <<>> THEN FALSE
    ELSE WithinCalendar(Strptime(date_str, 3))

validate_datetime(datetime_str) ==
    IF datetime_str = <<>> THEN FALSE
    ELSE IF Strptime(datetime_str, 6) = <<>> THEN FALSE
    ELSE WithinCalendar(Strptime(datetime_str, 6))

\* A capacity check that lets zero through.
ValidateCapacityAllowsZero(capacity) ==
    IF capacity = <<>> THEN TRUE
    ELSE ~(capacity[1] < 0 \/ capacity[1] > 100000)

validate_capacity(capacity) ==
    IF capacity = <<>> THEN TRUE
    ELSE ~(capacity[1] <= 0 \/ capacity[1] > 100000)

\* Python's `not x` for an optional id: None or 0.
Falsy(x) == x = <<>> \/ x[1] = 0

\* The checks an operation makes before execute_query, each TRUE when it
\* passes; any FALSE raises the ValueError.
Rules(o) ==
    CASE EntityOf(o.name) \in {"actor", "author", "director"} ->
           {validate_full_name(o.full_name)}
      [] EntityOf(o.name) = "play" ->
           {validate_title(o.title), validate_year(o.year_written)}
      [] EntityOf(o.name) = "production" ->
           {validate_title(o.title),
            o.production_date = <<>> \/ validate_date(o.production_date)}
      [] EntityOf(o.name) \in {"performance", "rehearsal"} ->
           {validate_datetime(o.datetime), ~Falsy(o.location_id)}
      [] EntityOf(o.name) \in {"role", "theatre"} ->
           {validate_title(o.title)}
      [] OTHER ->
           {~Falsy(o.theatre_id), validate_title(o.hall_name),
            o.capacity = <<>> \/ validate_capacity(o.capacity)}

\* An operation that sends its statement without checking anything.
ValidationSkipped(o) == TRUE

Validated(o) == IsWrite(o) => FALSE \notin Rules(o)

\* The column values the statement carries (names and titles stripped).
StoredValues(o) ==
    CASE EntityOf(o.name) \in {"actor", "author", "director"} -> <<Strip(o.full_name)>>
      [] EntityOf(o.name) = "play" -> <<Strip(o.title), o.year_written>>
      [] EntityOf(o.name) = "production" -> <<Strip(o.title), o.production_date>>
      [] EntityOf(o.name) \in {"performance", "rehearsal"} -> <<o.datetime, o.location_id>>
      [] EntityOf(o.name) \in {"role", "theatre"} -> <<Strip(o.title)>>
      [] OTHER -> <<o.theatre_id, Strip(o.hall_name), o.capacity>>

\* The rows of the entity tables before the call: one row with id 1 in each.
EntityTables == {EntityOf(n) : n \in AddOps}
ExistingRows == {[id |-> 1, f |-> <<t, <<"old">>>>] : t \in EntityTables}

\* The entity tables after the committed INSERT (a row with the next id) or
\* UPDATE ... WHERE id=%s (the row with that id, when there is one).
Stored(rows, o) ==
    LET t == EntityOf(o.name)
        ids == {r.id : r \in {x \in rows : x.f[1] = t}}
        next == IF ids = {} THEN 1 ELSE (CHOOSE i \in ids : \A j \in ids : j <= i) + 1
    IN  IF o.name \in AddOps
        THEN rows \cup {[id |-> next, f |-> <<t, StoredValues(o)>>]}
        ELSE {IF r.f[1] = t /\ r.id = o.owner
              THEN [id |-> r.id, f |-> <<t, StoredValues(o)>>] ELSE r : r \in rows}

\* delete_play and delete_production: DELETE FROM <entity> WHERE id=%s
DeleteEntityOps == {"delete_play", "delete_production"}
DeletedEntity(name) == IF name = "delete_play" THEN "play" ELSE "production"

\* A compensating DELETE that removes nothing.
TableAfterKeepsRow(rows, o) == IF IsWrite(o) THEN Stored(rows, o) ELSE rows

\* The entity tables after the committed statement of execute_query.
TableAfter(rows, o) ==
    IF IsWrite(o) THEN Stored(rows, o)
    ELSE IF o.name \in DeleteEntityOps
    THEN {r \in rows : ~(r.f[1] = DeletedEntity(o.name) /\ r.id = o.owner)}
    ELSE rows

FullNames == {NoneText, <<>>, <<" ", "a", "b", " ">>, <<"a", "b", "c">>,
              <<" ", "a", "-", "b">>, <<"a", "b", "1">>}
Titles == {NoneText, <<>>, <<" ", "a", " ">>, <<"a", "b">>, <<" ", "a", "b">>}
Years == {<<>>, <<500>>, <<999>>, <<1000>>, <<CurrentYear + 10>>, <<CurrentYear + 11>>,
          <<3000>>}
Dates == {<<>>, <<2026, 11, 3>>, <<1899, 12, 31>>, <<2026, 11, 3, 19, 0, 0>>}
Datetimes == {<<>>, <<2026, 11, 3>>, <<2026, 11, 3, 19, 0, 0>>,
              <<1899, 12, 31, 23, 59, 59>>, <<2101, 1, 1, 0, 0, 0>>,
              <<2026, 13, 1, 0, 0, 0>>}
OptionalIds == {<<>>, <<0>>, <<1>>}
Capacities == {<<>>, <<0>>, <<-1>>, <<1>>, <<100000>>, <<100001>>}

\* The id an update_* names; add_* names none.
TargetIds(name) == IF name \in UpdateOps THEN {1, 2} ELSE {0}

WriteCalls ==
    UNION {
      [name : {n}, owner : TargetIds(n), members : {{}}, full_name : FullNames]
      : n \in {x \in AddOps \cup UpdateOps :
                         EntityOf(x) \in {"actor", "author", "director"}} }
    \cup UNION {
      [name : {n}, owner : TargetIds(n), members : {{}}, title : Titles,
       year_written : Years] : n \in {"add_play", "update_play"} }
    \cup UNION {
      [name : {n}, owner : TargetIds(n), members : {{}}, title : Titles,
       production_date : Dates] : n \in {"add_production", "update_production"} }
    \cup UNION {
      [name : {n}, owner : TargetIds(n), members : {{}}, datetime : Datetimes,
       location_id : OptionalIds] :
         n \in {"add_performance", "update_performance", "add_rehearsal",
                "update_rehearsal"} }
    \cup UNION {
      [name : {n}, owner : TargetIds(n), members : {{}}, title : Titles] :
         n \in {"add_role", "update_role", "add_theatre", "update_theatre"} }
    \cup UNION {
      [name : {n}, owner : TargetIds(n), members : {{}}, theatre_id : OptionalIds,
       hall_name : Titles, capacity : Capacities] :
         n \in {"add_location", "update_location"} }

Calls ==
    [name : SetOps \ {"set_production_cast"}, owner : Ids, members : SUBSET Ids]
    \cup [name : {"set_production_cast"}, owner : Ids, members : SUBSET CastPairs]
    \cup [name : GetOps, owner : Ids, members : {{}}]
    \cup [name : {"delete_actor"}, owner : Ids, members : {{}}]

IsSet(o) == o.name \in SetOps
IsSelect(o) == o.name \in GetOps \cup ActorGetOps

\* Statements in flight at the store: every pc below is a coroutine awaiting
\* the store's answer to the statement it sent on entering that pc.
InFlightPcs == {"exec", "commit", "begin", "delete", "insert", "tx_commit", "rollback"}
CoroInFlight == {c \in Coros : pc[c] \in InFlightPcs}
LoaderInFlight == {l \in Loaders : lpc[l] = "query"}

\* asyncio.Lock: taken at once when nobody holds it or waits for it.
LockTakenWithoutLock(c) == TRUE

LockAvailable(c) == lockHolder = "free" /\ lockq = <<>>

\* A lock that wakes the waiter that came last.
LastWaiter(q) == q[Len(q)]

\* asyncio.Lock wakes its waiters first come, first served.
NextWaiter(q) == Head(q)

FirstPc(o) == IF IsSet(o) THEN "begin" ELSE "exec"
FirstSent(o) == IF IsSet(o) THEN 0 ELSE 1

\* The rows other connections see while a transaction has deleted `deleted`
\* from `committed` without committing.  A store that applied the DELETE
\* outside the transaction would show it at once.
VisibleWithoutTransaction(committed, deleted) == committed \ deleted

VisibleDuringTransaction(committed, deleted) == committed

\* The rows after COMMIT.  A commit that kept only the inserts' first row
\* or forgot the delete would differ.
CommitKeepsOld(committed, t) == committed \cup t.ins

CommitResult(committed, t) == (committed \ t.del) \cup t.ins

(***************************************************************************)
(* Initial states.                                                         *)
(***************************************************************************)
NoCall == [op |-> "none", key |-> "", search_text |-> NoneText,
           sort_column |-> NoneCol, sort_ascending |-> TRUE, force_refresh |-> FALSE]
NoStmt == [sql |-> <<>>, args |-> <<>>, force_refresh |-> FALSE]
NoRows == [kind |-> "none", error |-> "", rows |-> <<>>]

Tables == {{[id |-> i, f |-> g[i]] : i \in 1..NumRows} : g \in [1..NumRows -> RowValues]}

InitQueryVars ==
    /\ qcall = NoCall
    /\ qstmt = NoStmt
    /\ qres = NoRows
    /\ qlog = <<>>

InitManager ==
    /\ pool = "unset"
    /\ lockHolder = "free"
    /\ lockq = <<>>
    /\ pc = [c \in AllCoros |-> "idle"]
    /\ op = [c \in AllCoros |-> NoOp]
    /\ att = [c \in AllCoros |-> 0]
    /\ sent = [c \in AllCoros |-> 0]
    /\ slept = [c \in AllCoros |-> 0]
    /\ lastErr = [c \in AllCoros |-> NoErr]
    /\ res = [c \in AllCoros |-> NoRes]
    /\ pre = [c \in AllCoros |-> {}]
    /\ txn = [c \in AllCoros |-> NoTxn]
    /\ links = InitLinks
    /\ actors = Ids
    /\ faults = 0
    /\ lpc = [l \in Loaders |-> "idle"]
    /\ lleft = [l \in Loaders |-> 0]
    /\ ui = "none"
    /\ submitted = <<>>
    /\ gui = NoGui
    /\ edit = NoEdit
    /\ vcheck = NoCheck
    /\ boot = NoBoot
    /\ sample = NoSample
    /\ rf = NoRefresh
    /\ srch = NoSearch
    /\ adding = NoAdding

Init == table = {} /\ InitQueryVars /\ InitManager

InitQuery == table \in Tables /\ InitQueryVars /\ InitManager

\* Three theatres (name, city) in Oslo, Paris and Lima.
OsloParisLima ==
    {[id |-> 1, f |-> << <<"a">>, <<"O", "s", "l", "o">> >>],
     [id |-> 2, f |-> << <<"b">>, <<"P", "a", "r", "i", "s">> >>],
     [id |-> 3, f |-> << <<"a", "b">>, <<"L", "i", "m", "a">> >>]}

InitSort == table \in Tables \cup {OsloParisLima} /\ InitQueryVars /\ InitManager

(***************************************************************************)
(* List and Search: _select_all and _search_records, each with the store's *)
(* answer to the statement on the first attempt of execute_query.          *)
(***************************************************************************)
\* A table name that is not configured, answered with an empty list instead
\* of an error.
ConfigMissingAsNoRows == [kind |-> "rows", error |-> "", rows |-> <<>>]

ConfigNotFound == [kind |-> "ValueError", error |-> "config not found", rows |-> <<>>]

\* query_type = query.strip().upper().split()[0]; is_select = query_type == 'SELECT'
IsSelectSql(sql) == sql /= <<>> /\ sql[1] = "SELECT"

\* `if force_refresh and is_select`: the cache bypass goes out before the statement.
BypassIssued(stmt) == stmt.force_refresh /\ IsSelectSql(stmt.sql)

CacheBypass == "SET SESSION query_cache_type = OFF"

\* A failed cache bypass that fails the attempt (what `except: pass` prevents).
BypassFailureRaises(bypass_ok, answer) ==
    IF bypass_ok THEN answer
    ELSE [kind |-> "error", error |-> "OperationalError", rows |-> <<>>]

\* What the attempt returns after the bypass succeeded or failed.
AfterBypass(bypass_ok, answer) == answer

\* The first attempt of execute_query with the store answering the statement:
\* the bypass command when it is issued (it may fail), then the statement.
Execute(stmt, answer) ==
    \E bypass_ok \in (IF BypassIssued(stmt) THEN BOOLEAN ELSE {TRUE}) :
        /\ qlog' = (IF BypassIssued(stmt)
                    THEN <<[attempt |-> 0, cmd |-> CacheBypass, ok |-> bypass_ok]>>
                    ELSE <<>>)
                   \o <<[attempt |-> 0, cmd |-> "statement", ok |-> TRUE]>>
        /\ qres' = AfterBypass(bypass_ok, answer)

List(key, sort_column, sort_ascending, force_refresh) ==
    /\ qcall.op = "none"
    /\ qcall' = [op |-> "list", key |-> key, search_text |-> NoneText,
                 sort_column |-> sort_column, sort_ascending |-> sort_ascending,
                 force_refresh |-> force_refresh]
    /\ IF ~HasTableConfig(key)
       THEN qstmt' = NoStmt /\ qres' = ConfigNotFound /\ qlog' = <<>>
       ELSE /\ qstmt' = SelectAllStmt(key, sort_column, sort_ascending, force_refresh)
            /\ Execute(qstmt', StoreSelect(qstmt', table))
    /\ UNCHANGED <<table, cvars>>

Search(key, search_text, sort_column, sort_ascending, force_refresh) ==
    /\ qcall.op = "none"
    /\ qcall' = [op |-> "search", key |-> key, search_text |-> search_text,
                 sort_column |-> sort_column, sort_ascending |-> sort_ascending,
                 force_refresh |-> force_refresh]
    /\ IF ~HasTableConfig(key)
       THEN qstmt' = NoStmt /\ qres' = ConfigNotFound /\ qlog' = <<>>
       ELSE /\ qstmt' = SearchStmt(key, search_text, sort_column, sort_ascending,
                                   force_refresh)
            /\ Execute(qstmt', StoreSelect(qstmt', table))
    /\ UNCHANGED <<table, cvars>>

\* The caller takes the rows; the next call may follow.
QReturn ==
    /\ qcall.op /= "none"
    /\ qcall' = NoCall
    /\ qstmt' = NoStmt
    /\ qres' = NoRows
    /\ qlog' = <<>>
    /\ UNCHANGED <<table, cvars>>

\* A call starts only when none is being served; stating that before the
\* inputs are drawn keeps the enumeration of the inputs to the idle states.
NextQuery ==
    \/ /\ qcall.op = "none"
       /\ \E key \in RequestedKeys, c \in SortRequests, asc \in BOOLEAN, fr \in BOOLEAN :
             List(key, c, asc, fr)
    \/ /\ qcall.op = "none"
       /\ \E key \in RequestedKeys, t \in SearchTexts, c \in SortRequests,
             asc \in BOOLEAN, fr \in BOOLEAN :
             Search(key, t, c, asc, fr)
    \/ QReturn

SpecQuery == InitQuery /\ [][NextQuery]_vars

\* The same calls over a source that may also hold the three theatres.
SpecSort == InitSort /\ [][NextQuery]_vars

\* Searches whose text may hold a backslash, over rows that hold one too.
EscapeChars == {"a", "b", "\\"}
EscapeTexts == SeqsUpTo(EscapeChars, MaxTextLen) \ {<<>>}
BackslashRows ==
    {[id |-> 1, f |-> << <<"a", "\\", "b">>, <<"b">> >>],
     [id |-> 2, f |-> << <<"A", "b">>, <<"a">> >>]}

InitLike == table \in Tables \cup {BackslashRows} /\ InitQueryVars /\ InitManager

NextLike ==
    \/ /\ qcall.op = "none"
       /\ \E key \in TableKeys, t \in EscapeTexts, asc \in BOOLEAN :
             Search(key, t, NoneCol, asc, FALSE)
    \/ QReturn

SpecLike == InitLike /\ [][NextLike]_vars

\* execute_query called with a statement that is no SELECT: delete_location's
\* DELETE, with the force_refresh flag as the caller sets it.
ExecuteNonSelect(id, force_refresh) ==
    /\ qcall.op = "none"
    /\ qcall' = [op |-> "execute", key |-> "locations", search_text |-> NoneText,
                 sort_column |-> NoneCol, sort_ascending |-> TRUE,
                 force_refresh |-> force_refresh]
    /\ qstmt' = [sql |-> <<"DELETE", "FROM", "location", "WHERE", "id=%s">>,
                 args |-> <<id>>, force_refresh |-> force_refresh]
    /\ Execute(qstmt', [kind |-> "lastrowid", error |-> "", rows |-> <<>>])
    /\ table' = {r \in table : r.id /= id}
    /\ UNCHANGED cvars

NextFresh ==
    \/ NextQuery
    \/ /\ qcall.op = "none"
       /\ \E id \in 1..NumRows, fr \in BOOLEAN : ExecuteNonSelect(id, fr)

\* List and Search beside direct calls of execute_query.
SpecFresh == InitQuery /\ [][NextFresh]_vars

(***************************************************************************)
(* The coroutines of the background loop.                                  *)
(***************************************************************************)
\* init_pool succeeded.  (When it fails the pool stays None.)
InitPool ==
    /\ pool = "unset"
    /\ pool' = "open"
    /\ UNCHANGED <<qvars, lockHolder, lockq, pc, op, att, sent, slept, lastErr, res,
                   pre, txn, links, actors, faults, lpc, lleft,
                   ui>>

\* A DatabaseManager method is called: the local validation of add_* and
\* update_*, the pool check, then `async with self._lock`, then the first
\* statement goes to the store.
Call(c, o) ==
    /\ pc[c] = "idle"
    /\ op' = [op EXCEPT ![c] = o]
    /\ IF ~Validated(o)
       THEN /\ res' = [res EXCEPT ![c] = Raise(Err("ValueError", "validate", 0))]
            /\ pc' = [pc EXCEPT ![c] = "done"]
            /\ UNCHANGED <<lockHolder, lockq, sent, pre>>
       ELSE IF pool /= "open"
       THEN /\ res' = [res EXCEPT ![c] = Raise(Err("RuntimeError", "pool", 0))]
            /\ pc' = [pc EXCEPT ![c] = "done"]
            /\ UNCHANGED <<lockHolder, lockq, sent, pre>>
       ELSE IF LockAvailable(c)
       THEN /\ lockHolder' = c
            /\ pc' = [pc EXCEPT ![c] = FirstPc(o)]
            /\ sent' = [sent EXCEPT ![c] = FirstSent(o)]
            /\ pre' = [pre EXCEPT ![c] = IF IsSet(o) THEN ReadAssoc(links, o.name, o.owner)
                                         ELSE {}]
            /\ UNCHANGED <<lockq, res>>
       ELSE /\ lockq' = Append(lockq, c)
            /\ pc' = [pc EXCEPT ![c] = "wait"]
            /\ UNCHANGED <<lockHolder, sent, pre, res>>
    /\ UNCHANGED <<qvars, pool, att, slept, lastErr, txn, links, actors, faults,
                   lpc, lleft, ui>>

\* A call that keeps the lock when it ends with an exception.
LeaveKeepingLockOnRaise(c, r) ==
    LET n == IF r.kind = "raise" THEN c
             ELSE IF lockq = <<>> THEN "free" ELSE NextWaiter(lockq)
        Others(p) == p /= n
    IN  /\ res' = [res EXCEPT ![c] = r]
        /\ lockHolder' = n
        /\ lockq' = SelectSeq(lockq, Others)
        /\ pc' = [p \in AllCoros |-> IF p = c THEN "done"
                                     ELSE IF p = n THEN FirstPc(op[p]) ELSE pc[p]]
        /\ sent' = [p \in AllCoros |-> IF p = n /\ p /= c THEN FirstSent(op[p])
                                       ELSE sent[p]]
        /\ pre' = [p \in AllCoros |-> IF p = n /\ p /= c /\ IsSet(op[p])
                                   THEN ReadAssoc(links', op[p].name, op[p].owner)
                                   ELSE pre[p]]

\* The call ends with result r: the async-with blocks release the connection
\* and the lock, and the first waiter takes the lock and sends its statement.
Leave(c, r) ==
    LET n == IF lockq = <<>> THEN "free" ELSE NextWaiter(lockq)
        Others(p) == p /= n
    IN  /\ res' = [res EXCEPT ![c] = r]
        /\ lockHolder' = n
        /\ lockq' = SelectSeq(lockq, Others)
        /\ pc' = [p \in AllCoros |-> IF p = c THEN "done"
                                     ELSE IF p = n THEN FirstPc(op[p]) ELSE pc[p]]
        /\ sent' = [p \in AllCoros |-> IF p = n /\ p /= c THEN FirstSent(op[p])
                                       ELSE sent[p]]
        /\ pre' = [p \in AllCoros |-> IF p = n /\ p /= c /\ IsSet(op[p])
                                   THEN ReadAssoc(links', op[p].name, op[p].owner)
                                   ELSE pre[p]]

\* execute_query's except branch: raise on the last attempt, else sleep.
RetryAfterFirstOnly(c, e) ==
    /\ lastErr' = [lastErr EXCEPT ![c] = e]
    /\ IF att[c] >= 1
       THEN Leave(c, Raise(e))
       ELSE /\ pc' = [pc EXCEPT ![c] = "sleep"]
            /\ UNCHANGED <<res, lockHolder, lockq, sent, pre>>

AttemptFailed(c, e) ==
    /\ lastErr' = [lastErr EXCEPT ![c] = e]
    /\ IF att[c] = max_retries - 1
       THEN Leave(c, Raise(e))
       ELSE /\ pc' = [pc EXCEPT ![c] = "sleep"]
            /\ UNCHANGED <<res, lockHolder, lockq, sent, pre>>

\* The store answers cur.execute(query, args) of execute_query.
ExecReply(c) ==
    /\ pc[c] = "exec"
    /\ UNCHANGED <<qvars, pool, op, att, slept, txn, actors, lpc, lleft,
                   ui>>
    /\ links' = links
    /\ \/ /\ IsSelect(op[c])
          /\ Leave(c, ReturnRows(Selected(links, op[c])))
          /\ UNCHANGED <<lastErr, faults>>
       \/ /\ ~IsSelect(op[c])
          /\ StatementAllowed(links, op[c])
          /\ pc' = [pc EXCEPT ![c] = "commit"]
          /\ UNCHANGED <<res, lockHolder, lockq, sent, pre, lastErr, faults>>
       \/ /\ ~IsSelect(op[c])
          /\ ~StatementAllowed(links, op[c])
          /\ AttemptFailed(c, Err("IntegrityError", "exec", att[c]))
          /\ UNCHANGED faults
       \/ /\ faults < MaxFaults
          /\ faults' = faults + 1
          /\ AttemptFailed(c, Err("OperationalError", "exec", att[c]))

\* The store answers conn.commit() of execute_query.
CommitReply(c) ==
    /\ pc[c] = "commit"
    /\ UNCHANGED <<qcall, qstmt, qres, qlog, pool, op, att, slept, txn, lpc, lleft,
                   ui>>
    /\ \/ /\ actors' = IF op[c].name = "delete_actor" THEN actors \ {op[c].owner}
                        ELSE actors
          /\ table' = TableAfter(table, op[c])
          /\ links' = LinkResult(links, op[c])
          /\ Leave(c, [kind |-> "lastrowid", rows |-> {}, error |-> NoErr])
          /\ UNCHANGED <<lastErr, faults>>
       \/ /\ faults < MaxFaults
          /\ faults' = faults + 1
          /\ UNCHANGED <<actors, table, links>>
          /\ AttemptFailed(c, Err("OperationalError", "commit", att[c]))

\* asyncio.sleep(0.1) is over: the next attempt sends the statement again.
Wake(c) ==
    /\ pc[c] = "sleep"
    /\ att' = [att EXCEPT ![c] = att[c] + 1]
    /\ slept' = [slept EXCEPT ![c] = slept[c] + 1]
    /\ sent' = [sent EXCEPT ![c] = sent[c] + 1]
    /\ pc' = [pc EXCEPT ![c] = "exec"]
    /\ UNCHANGED <<qvars, pool, lockHolder, lockq, op, lastErr, res, pre, txn, links,
                   actors, faults, lpc, lleft, ui>>

(***************************************************************************)
(* The four set_* transactions (one pattern; op[c].name tells the table    *)
(* and the owner column).                                                  *)
(***************************************************************************)
\* The except branch: a failed step goes to `await conn.rollback()`.
TxFailed(c, e) ==
    /\ lastErr' = [lastErr EXCEPT ![c] = e]
    /\ pc' = [pc EXCEPT ![c] = "rollback"]
    /\ UNCHANGED <<res, lockHolder, lockq, sent, pre>>

\* conn.begin() answered: the DELETE goes out.
BeginReply(c) ==
    /\ pc[c] = "begin"
    /\ UNCHANGED <<qvars, pool, op, att, slept, txn, links, actors, lpc,
                   lleft, ui>>
    /\ \/ /\ pc' = [pc EXCEPT ![c] = "delete"]
          /\ UNCHANGED <<res, lockHolder, lockq, sent, pre, lastErr, faults>>
       \/ /\ faults < MaxFaults
          /\ faults' = faults + 1
          /\ TxFailed(c, Err("OperationalError", "begin", 0))

\* DELETE FROM <table> WHERE <owner column> = %s answered: the bulk insert
\* goes out when there is something to insert, else the COMMIT.
DeleteReply(c) ==
    /\ pc[c] = "delete"
    /\ UNCHANGED <<qvars, pool, op, att, slept, actors, lpc, lleft,
                   ui>>
    /\ \/ LET del == OwnerRows(links, op[c].name, op[c].owner)
          IN  /\ txn' = [txn EXCEPT ![c] = [del |-> del, ins |-> {}]]
              /\ links' = VisibleDuringTransaction(links, del)
              /\ pc' = [pc EXCEPT ![c] = IF op[c].members /= {} THEN "insert"
                                         ELSE "tx_commit"]
              /\ UNCHANGED <<res, lockHolder, lockq, sent, pre, lastErr, faults>>
       \/ /\ faults < MaxFaults
          /\ faults' = faults + 1
          /\ TxFailed(c, Err("OperationalError", "delete", 0))
          /\ UNCHANGED <<txn, links>>

\* cur.executemany(insert_query, tuples_to_insert) answered.
InsertReply(c) ==
    LET rows == TuplesToInsert(op[c].name, op[c].owner, op[c].members)
    IN  /\ pc[c] = "insert"
        /\ UNCHANGED <<qvars, pool, op, att, slept, links, actors, lpc, lleft,
                       ui>>
        /\ \/ /\ InsertAllowed(rows, actors)
              /\ txn' = [txn EXCEPT ![c].ins = rows]
              /\ pc' = [pc EXCEPT ![c] = "tx_commit"]
              /\ UNCHANGED <<res, lockHolder, lockq, sent, pre, lastErr, faults>>
           \/ /\ ~InsertAllowed(rows, actors)
              /\ TxFailed(c, Err("IntegrityError", "insert", 0))
              /\ UNCHANGED <<txn, faults>>
           \/ /\ faults < MaxFaults
              /\ faults' = faults + 1
              /\ TxFailed(c, Err("OperationalError", "insert", 0))
              /\ UNCHANGED txn

\* conn.commit() answered.
TxCommitReply(c) ==
    /\ pc[c] = "tx_commit"
    /\ UNCHANGED <<qvars, pool, op, att, slept, actors, lpc, lleft, ui>>
    /\ \/ /\ links' = CommitResult(links, txn[c])
          /\ txn' = [txn EXCEPT ![c] = NoTxn]
          /\ Leave(c, ReturnNone)
          /\ UNCHANGED <<lastErr, faults>>
       \/ /\ faults < MaxFaults
          /\ faults' = faults + 1
          /\ TxFailed(c, Err("OperationalError", "commit", 0))
          /\ UNCHANGED <<txn, links>>

\* conn.rollback() answered: `raise e` when it succeeded; when it raised, its
\* own exception leaves the except block, and the pool closes the connection
\* that is still in a transaction, which discards the changes at the store.
RollbackReply(c) ==
    /\ pc[c] = "rollback"
    /\ UNCHANGED <<qvars, pool, op, att, slept, actors, lpc, lleft,
                   ui, lastErr>>
    /\ links' = links
    /\ txn' = [txn EXCEPT ![c] = NoTxn]
    /\ \/ /\ Leave(c, Raise(lastErr[c]))
          /\ UNCHANGED faults
       \/ /\ faults < MaxFaults
          /\ faults' = faults + 1
          /\ Leave(c, Raise(Err("OperationalError", "rollback", 0)))

(***************************************************************************)
(* The UI's delete handler and the end of a call.                          *)
(***************************************************************************)
\* on_delete: future.result() returned or raised.
OnDeleteMessage(r) ==
    IF r.kind /= "raise" THEN "deleted"
    ELSE IF r.error.type = "IntegrityError" THEN "cannot delete: referenced elsewhere"
    ELSE "delete failed"

\* The call has returned to its awaiter: its frame is gone.
ClearFrame(c, p) ==
    /\ pc' = [pc EXCEPT ![c] = p]
    /\ op' = [op EXCEPT ![c] = NoOp]
    /\ att' = [att EXCEPT ![c] = 0]
    /\ sent' = [sent EXCEPT ![c] = 0]
    /\ slept' = [slept EXCEPT ![c] = 0]
    /\ lastErr' = [lastErr EXCEPT ![c] = NoErr]
    /\ res' = [res EXCEPT ![c] = NoRes]
    /\ pre' = [pre EXCEPT ![c] = {}]

\* The caller has the result (on_delete shows its message); the coroutine is
\* over.
Finish(c) ==
    /\ pc[c] = "done"
    /\ ui' = IF op[c].name = "delete_actor" THEN OnDeleteMessage(res[c]) ELSE ui
    /\ ClearFrame(c, "over")
    /\ UNCHANGED <<qvars, pool, lockHolder, lockq, txn, links, actors, faults, lpc,
                   lleft>>

(***************************************************************************)
(* The Excel report loader: fetch_report_data runs get_all_productions_data *)
(* and get_analytics_data as two tasks of its own loop; get_data_from_db    *)
(* takes a connection of its own pool and no lock.                          *)
(***************************************************************************)
ExportStart ==
    /\ \A l \in Loaders : lpc[l] = "idle"
    /\ lpc' = [l \in Loaders |-> "query"]
    /\ lleft' = [l \in Loaders |-> IF l = "analytics_task" THEN NumAnalyticsQueries - 1
                                  ELSE 0]
    /\ UNCHANGED <<qvars, pool, lockHolder, lockq, pc, op, att, sent, slept, lastErr,
                   res, pre, txn, links, actors, faults, ui>>

\* cursor.execute / fetchall of get_data_from_db answered.
LoaderReply(l) ==
    /\ lpc[l] = "query"
    /\ UNCHANGED <<qvars, pool, lockHolder, lockq, pc, op, att, sent, slept, lastErr,
                   res, pre, txn, links, actors, ui>>
    /\ \/ /\ IF lleft[l] > 0
             THEN lleft' = [lleft EXCEPT ![l] = lleft[l] - 1] /\ UNCHANGED lpc
             ELSE lpc' = [lpc EXCEPT ![l] = "done"] /\ UNCHANGED lleft
          /\ UNCHANGED faults
       \/ /\ faults < MaxFaults
          /\ faults' = faults + 1
          /\ lpc' = [lpc EXCEPT ![l] = "failed"]
          /\ UNCHANGED lleft

\* gather returned (or raised) and create_report closed its pool and loop.
ExportEnd ==
    /\ \/ \A l \in Loaders : lpc[l] = "done"
       \/ \E l \in Loaders : lpc[l] = "failed"
    /\ lpc' = [l \in Loaders |-> "closed"]
    /\ lleft' = [l \in Loaders |-> 0]
    /\ UNCHANGED <<qvars, pool, lockHolder, lockq, pc, op, att, sent, slept, lastErr,
                   res, pre, txn, links, actors, faults, ui>>

\* One step of coroutine c of the background loop, its call drawn from calls.
CoroStep(c, calls) ==
    \/ pc[c] = "idle" /\ (\E o \in calls : Call(c, o)) /\ UNCHANGED xvars
    \/ ExecReply(c) /\ UNCHANGED xvars
    \/ CommitReply(c) /\ UNCHANGED xvars
    \/ Wake(c) /\ UNCHANGED xvars
    \/ BeginReply(c) /\ UNCHANGED xvars
    \/ DeleteReply(c) /\ UNCHANGED xvars
    \/ InsertReply(c) /\ UNCHANGED xvars
    \/ TxCommitReply(c) /\ UNCHANGED xvars
    \/ RollbackReply(c) /\ UNCHANGED xvars
    \/ Finish(c) /\ UNCHANGED xvars

\* The background loop with two UI actions pending.
Next ==
    \/ InitPool /\ UNCHANGED xvars
    \/ \E c \in Coros : CoroStep(c, Calls)

Spec == Init /\ [][Next]_vars

\* The calls of the UI actions pending while an export runs.
ExportCalls ==
    {[name |-> "get_cast_for_production", owner |-> 1, members |-> {}],
     [name |-> "set_production_cast", owner |-> 1, members |-> {<<2, 2>>}],
     [name |-> "delete_actor", owner |-> 2, members |-> {}]}

\* Two UI actions on the background loop while the Excel export runs in its
\* executor thread.
NextExport ==
    \/ InitPool /\ UNCHANGED xvars
    \/ \E c \in Coros : CoroStep(c, ExportCalls)
    \/ ExportStart /\ UNCHANGED xvars
    \/ \E l \in Loaders : LoaderReply(l) /\ UNCHANGED xvars
    \/ ExportEnd /\ UNCHANGED xvars

SpecExport == Init /\ [][NextExport]_vars

(***************************************************************************)
(* Statements of one logical task beside another task's.  refresh_all_data *)
(* hands its calls to asyncio.gather in order (coroutines c1 and c2); c3   *)
(* is a UI action's call; fetch_report_data creates the loader's two tasks *)
(* in order.                                                               *)
(***************************************************************************)
\* refresh_all_data's calls are SELECTs; the UI action's call is a DELETE.
TaskCalls(c) ==
    IF c \in Coros
    THEN {[name |-> "get_cast_for_production", owner |-> 1, members |-> {}]}
    ELSE {[name |-> "delete_actor", owner |-> 2, members |-> {}]}

\* The logical task a statement belongs to.
TaskOf(t) ==
    CASE t \in Coros -> "refresh_all_data"
      [] t \in Loaders -> "fetch_report_data"
      [] OTHER -> "ui"

\* The task's call is made: its statement is submitted.
Submit(c, o) ==
    /\ Call(c, o)
    /\ submitted' = Append(submitted, c)
    /\ UNCHANGED <<gui, edit, yvars>>

\* productions_task = create_task(...); analytics_task = create_task(...)
SubmitExport ==
    /\ ExportStart
    /\ submitted' = submitted \o <<"productions_task", "analytics_task">>
    /\ UNCHANGED <<gui, edit, yvars>>

NextTask ==
    \/ InitPool /\ UNCHANGED xvars
    \/ \E c \in AllCoros : pc[c] = "idle" /\ \E o \in TaskCalls(c) : Submit(c, o)
    \/ \E c \in AllCoros : ExecReply(c) /\ UNCHANGED xvars
    \/ \E c \in AllCoros : CommitReply(c) /\ UNCHANGED xvars
    \/ \E c \in AllCoros : Wake(c) /\ UNCHANGED xvars
    \/ SubmitExport
    \/ \E l \in Loaders : LoaderReply(l) /\ UNCHANGED xvars
    \/ ExportEnd /\ UNCHANGED xvars

SpecTask == Init /\ [][NextTask]_vars

(***************************************************************************)
(* The GUI thread's handlers (on_add, on_delete, ...): the handler submits *)
(* the coroutine with run_async and waits on future.result(timeout=10).    *)
(***************************************************************************)
GuiCalls ==
    {[name |-> "get_cast_for_production", owner |-> 1, members |-> {}],
     [name |-> "delete_actor", owner |-> 2, members |-> {}]}

\* A wait whose expiry cancels the coroutine.
CancelOnTimeout(p) == "cancelled"

\* future.result(timeout) raising TimeoutError leaves the future, and the
\* coroutine behind it, as they are.
AfterTimeout(p) == p

\* future = run_async(...); future.result(timeout=10): the coroutine starts
\* on the background loop and the GUI thread waits.  (run_async returns None
\* while the database is not initialized, and the handler then does nothing.)
GuiSubmit(c, o) ==
    /\ gui.waiting = "none"
    /\ pool = "open"
    /\ Call(c, o)
    /\ gui' = [gui EXCEPT !.waiting = c]
    /\ UNCHANGED <<submitted, edit, yvars>>

\* future.result returned or raised the coroutine's outcome: the handler
\* shows its message and returns.
GuiResult(c) ==
    /\ gui.waiting = c
    /\ Finish(c)
    /\ gui' = [gui EXCEPT !.waiting = "none"]
    /\ UNCHANGED <<submitted, edit, yvars>>

\* The ten seconds are over before the coroutine is: future.result raises
\* TimeoutError, `except Exception` shows the error and the handler returns.
GuiTimeout(c) ==
    /\ gui.waiting = c
    /\ pc[c] /= "done"
    /\ gui' = [waiting |-> "none", abandoned |-> gui.abandoned \cup {c}]
    /\ ui' = "timed out"
    /\ pc' = [pc EXCEPT ![c] = AfterTimeout(pc[c])]
    /\ UNCHANGED <<qvars, pool, lockHolder, lockq, op, att, sent, slept, lastErr, res,
                   pre, txn, links, actors, faults, lpc, lleft, submitted, edit, yvars>>

\* A coroutine nobody waits for any more is over: its outcome stays unread.
Drop(c) ==
    /\ c \in gui.abandoned
    /\ pc[c] = "done"
    /\ ClearFrame(c, "over")
    /\ UNCHANGED <<qvars, pool, lockHolder, lockq, txn, links, actors, faults, lpc,
                   lleft, ui, xvars>>

\* The background loop runs coroutine c up to its next await.
LoopStep(c) == (ExecReply(c) \/ CommitReply(c) \/ Wake(c)) /\ UNCHANGED xvars

NextGui ==
    \/ InitPool /\ UNCHANGED xvars
    \/ \E c \in Coros : pc[c] = "idle" /\ \E o \in GuiCalls : GuiSubmit(c, o)
    \/ \E c \in Coros : ExecReply(c) /\ UNCHANGED xvars
    \/ \E c \in Coros : CommitReply(c) /\ UNCHANGED xvars
    \/ \E c \in Coros : Wake(c) /\ UNCHANGED xvars
    \/ \E c \in Coros : GuiResult(c)
    \/ \E c \in Coros : GuiTimeout(c)
    \/ \E c \in Coros : Drop(c)

SpecGui == Init /\ [][NextGui]_vars

\* event_loop.run_forever() keeps running every coroutine that can go on,
\* and the store answers every statement, if only with an error.
SpecGuiFair == SpecGui /\ \A c \in Coros : WF_vars(LoopStep(c))

(***************************************************************************)
(* Editing an actor: update_actor_with_connections awaits one             *)
(* DatabaseManager call after the other, each a statement of its own.      *)
(***************************************************************************)
\* The elements of a set of rows, one after the other.
RECURSIVE RowsInTurn(_)
RowsInTurn(rows) ==
    IF rows = {} THEN <<>>
    ELSE LET r == CHOOSE x \in rows : TRUE
         IN  <<r>> \o RowsInTurn(rows \ {r})

RECURSIVE LinkCalls(_, _, _)
LinkCalls(name, a, rows) ==
    IF rows = <<>> THEN <<>>
    ELSE <<[name |-> name, owner |-> a, members |-> {Head(rows)}]>>
         \o LinkCalls(name, a, Tail(rows))

\* The calls after the three reads: for roles, rehearsals and productions
\* in turn, one remove_* per current row and one add_* per row of the dialog.
Replacements(e, current) ==
    LET a == e.actor
    IN  LinkCalls("remove_actor_role", a,
                  RowsInTurn(ActorLinks(current, "get_actor_roles", a)))
        \o LinkCalls("add_actor_role", a,
                     RowsInTurn({<<"actor_role", <<a, d[1]>>, d[2]>> : d \in e.roles_data}))
        \o LinkCalls("remove_actor_from_rehearsal", a,
                     RowsInTurn(ActorLinks(current, "get_actor_rehearsals", a)))
        \o LinkCalls("add_actor_to_rehearsal", a,
                     RowsInTurn({<<"actor_rehearsal", a, i>> : i \in e.rehearsal_ids}))
        \o LinkCalls("remove_actor_from_production", a,
                     RowsInTurn(ActorLinks(current, "get_actor_productions", a)))
        \o LinkCalls("add_actor_to_production", a,
                     RowsInTurn({<<"actor_production", a, i>> : i \in e.production_ids}))

\* The dialog is confirmed and the coroutine is created.
EditStart(c, a, roles_data, rehearsal_ids, production_ids) ==
    /\ edit.state = "none"
    /\ pc[c] = "idle"
    /\ pool = "open"
    /\ edit' = [state |-> "running", actor |-> a, roles_data |-> roles_data,
                rehearsal_ids |-> rehearsal_ids, production_ids |-> production_ids,
                current |-> {},
                todo |-> <<[name |-> "update_actor", owner |-> a, members |-> {},
                            full_name |-> <<"a", "b", "c">>],
                           [name |-> "get_actor_roles", owner |-> a, members |-> {}],
                           [name |-> "get_actor_rehearsals", owner |-> a, members |-> {}],
                           [name |-> "get_actor_productions", owner |-> a,
                            members |-> {}]>>,
                before |-> links]
    /\ UNCHANGED <<qvars, pool, lockHolder, lockq, pc, op, att, sent, slept, lastErr,
                   res, pre, txn, links, actors, faults, lpc, lleft, ui, submitted, gui, yvars>>

\* The coroutine's next `await db_manager. ...`.
EditCall(c) ==
    /\ edit.state = "running"
    /\ edit.todo /= <<>>
    /\ Call(c, Head(edit.todo))
    /\ edit' = [edit EXCEPT !.todo = Tail(edit.todo)]
    /\ UNCHANGED <<submitted, gui, yvars>>

\* The awaited call is over.  An exception leaves the coroutine through its
\* `except ... raise e`; a result lets it go on, the third read fixing the
\* calls that follow; after the last call it returns.
EditAwaited(c) ==
    /\ edit.state = "running"
    /\ pc[c] = "done"
    /\ LET current == edit.current \cup (IF IsSelect(op[c]) THEN res[c].rows ELSE {})
           todo == IF op[c].name = "get_actor_productions"
                   THEN Replacements(edit, current) ELSE edit.todo
       IN  IF res[c].kind = "raise"
           THEN /\ edit' = [edit EXCEPT !.state = "raised"]
                /\ ui' = "edit failed"
                /\ ClearFrame(c, "over")
           ELSE IF todo = <<>>
           THEN /\ edit' = [edit EXCEPT !.state = "returned", !.current = current]
                /\ ui' = "edit saved"
                /\ ClearFrame(c, "over")
           ELSE /\ edit' = [edit EXCEPT !.current = current, !.todo = todo]
                /\ ui' = ui
                /\ ClearFrame(c, "idle")
    /\ UNCHANGED <<qvars, pool, lockHolder, lockq, txn, links, actors, faults, lpc,
                   lleft, submitted, gui, yvars>>

NextEdit ==
    \/ InitPool /\ UNCHANGED xvars
    \/ \E roles_data \in SUBSET {<<2, 2>>}, rehearsal_ids \in SUBSET Ids,
          production_ids \in SUBSET Ids :
          EditStart("c1", 1, roles_data, rehearsal_ids, production_ids)
    \/ EditCall("c1")
    \/ ExecReply("c1") /\ UNCHANGED xvars
    \/ CommitReply("c1") /\ UNCHANGED xvars
    \/ Wake("c1") /\ UNCHANGED xvars
    \/ EditAwaited("c1")

SpecEdit == Init /\ [][NextEdit]_vars

\* One add_* or update_* call on the background loop, the entity tables
\* holding a row each.
InitWrite == table = ExistingRows /\ InitQueryVars /\ InitManager

NextWrite ==
    \/ InitPool /\ UNCHANGED xvars
    \/ /\ pc["c1"] = "idle"
       /\ \E o \in WriteCalls : Call("c1", o)
       /\ UNCHANGED xvars
    \/ ExecReply("c1") /\ UNCHANGED xvars
    \/ CommitReply("c1") /\ UNCHANGED xvars
    \/ Wake("c1") /\ UNCHANGED xvars
    \/ Finish("c1") /\ UNCHANGED xvars

SpecWrite == InitWrite /\ [][NextWrite]_vars

(***************************************************************************)
(* The validators applied to the values a form can hand them: None, a      *)
(* string, an integer.                                                     *)
(***************************************************************************)
NoneValue == [kind |-> "None", text |-> <<>>, n |-> 0]
StrValue(text) == [kind |-> "str", text |-> text, n |-> 0]
IntValue(n) == [kind |-> "int", text |-> <<>>, n |-> n]

Digits == <<"0", "1", "2", "3", "4", "5", "6", "7", "8", "9">>

\* int(text): the number a numeral (digits, '-' in front allowed, blanks
\* around ignored) stands for; any other text raises ValueError.
IsNumeral(text) ==
    LET t == Strip(text)
        d == IF t /= <<>> /\ Head(t) = "-" THEN Tail(t) ELSE t
    IN  d /= <<>> /\ \A i \in 1..Len(d) : d[i] \in SeqRange(Digits)

RECURSIVE DigitsValue(_)
DigitsValue(d) ==
    IF d = <<>> THEN 0
    ELSE 10 * DigitsValue(SubSeq(d, 1, Len(d) - 1)) + (IndexOf(Digits, d[Len(d)]) - 1)

IntOf(text) ==
    LET t == Strip(text)
    IN  IF Head(t) = "-" THEN 0 - DigitsValue(Tail(t)) ELSE DigitsValue(t)

\* `x is None or x == ''`
IsAbsent(value) == value.kind = "None" \/ (value.kind = "str" /\ value.text = <<>>)

\* `int(x) if isinstance(x, str) else x` raises ValueError; an absent value
\* has returned before the conversion.
ConversionFails(value) ==
    ~IsAbsent(value) /\ value.kind = "str" /\ ~IsNumeral(value.text)

\* The optional number after the conversion.
NumberOf(value) ==
    IF IsAbsent(value) THEN <<>>
    ELSE IF value.kind = "str" THEN <<IntOf(value.text)>>
    ELSE <<value.n>>

TextOf(value) == IF value.kind = "None" THEN NoneText ELSE value.text

ValidatorNames == {"validate_full_name", "validate_title", "validate_year",
                   "validate_capacity"}

\* The first component of the pair the validator returns.
Verdict(validator, value) ==
    CASE validator = "validate_full_name" -> validate_full_name(TextOf(value))
      [] validator = "validate_title" -> validate_title(TextOf(value))
      [] validator = "validate_year" ->
           IF ConversionFails(value) THEN FALSE ELSE validate_year(NumberOf(value))
      [] OTHER ->
           IF ConversionFails(value) THEN FALSE ELSE validate_capacity(NumberOf(value))

Run(n) == [i \in 1..n |-> "a"]

\* Texts around both length limits, with and without blanks to strip.
FormTexts ==
    SeqsUpTo({"a", " "}, MaxTextLen + 2)
    \cup {Run(n) : n \in 254..256}
    \cup {<<" ">> \o Run(n) \o <<" ">> : n \in 254..256}

FormNumbers ==
    {-1, 0, 1, 2, 999, 1000, 1001, 99999, 100000, 100001,
     CurrentYear, CurrentYear + 9, CurrentYear + 10, CurrentYear + 11}

FormNumerals ==
    {<<"0">>, <<"1">>, <<"-", "1">>, <<"9", "9", "9">>, <<"1", "0", "0", "0">>,
     <<" ", "2", "0", "3", "6">>, <<"2", "0", "3", "7">>,
     <<"1", "0", "0", "0", "0", "0">>, <<"1", "0", "0", "0", "0", "1">>,
     <<"a">>, <<" ">>, <<"1", "a">>, <<"-">>}

FormValues(validator) ==
    IF validator \in {"validate_full_name", "validate_title"}
    THEN {NoneValue} \cup {StrValue(t) : t \in FormTexts}
    ELSE {NoneValue, StrValue(<<>>)} \cup {StrValue(t) : t \in FormNumerals}
         \cup {IntValue(n) : n \in FormNumbers}

Validate(validator, value) ==
    /\ vcheck' = [validator |-> validator, value |-> value,
                  ok |-> Verdict(validator, value)]
    /\ UNCHANGED <<qvars, pool, lockHolder, lockq, pc, op, att, sent, slept, lastErr,
                   res, pre, txn, links, actors, faults, lpc, lleft, ui, submitted,
                   gui, edit, boot, sample, rf, srch, adding>>

NextValidate == \E validator \in ValidatorNames :
                    \E value \in FormValues(validator) : Validate(validator, value)

SpecValidate == Init /\ [][NextValidate]_vars

(***************************************************************************)
(* The background loop keeps running every coroutine whose awaited store   *)
(* call has returned or failed.                                            *)
(***************************************************************************)
LockCalls ==
    {[name |-> "get_cast_for_production", owner |-> 1, members |-> {}],
     [name |-> "delete_actor", owner |-> 2, members |-> {}],
     [name |-> "set_rehearsal_actors", owner |-> 1, members |-> {2}]}

NextLock ==
    \/ InitPool /\ UNCHANGED xvars
    \/ \E c \in Coros : CoroStep(c, LockCalls)

\* The store's answer to the statement coroutine c awaits arrives and the
\* loop resumes c.
Resume(c) ==
    (ExecReply(c) \/ CommitReply(c) \/ Wake(c) \/ BeginReply(c) \/ DeleteReply(c)
        \/ InsertReply(c) \/ TxCommitReply(c) \/ RollbackReply(c)) /\ UNCHANGED xvars

SpecLock == Init /\ [][NextLock]_vars

SpecLockFair == SpecLock /\ \A c \in Coros : WF_vars(Resume(c))

(***************************************************************************)
(* Start-up: run_event_loop creates the manager, runs init_pool to its end, *)
(* stores its outcome in db_initialized and, on success, runs the loop      *)
(* forever; run_async hands a coroutine to the loop.                        *)
(***************************************************************************)
StartCalls ==
    {[name |-> "get_cast_for_production", owner |-> 1, members |-> {}],
     [name |-> "delete_actor", owner |-> 2, members |-> {}],
     [name |-> "set_play_authors", owner |-> 1, members |-> {2}],
     [name |-> "set_production_cast", owner |-> 1, members |-> {<<2, 2>>}]}

\* success = event_loop.run_until_complete(db_manager.init_pool())
BootInitPool(success) ==
    /\ boot.stage = "created"
    /\ boot' = [boot EXCEPT !.stage = "init_done", !.success = success]
    /\ IF success THEN InitPool
       ELSE UNCHANGED <<qvars, pool, lockHolder, lockq, pc, op, att, sent, slept,
                        lastErr, res, pre, txn, links, actors, faults, lpc, lleft, ui>>
    /\ UNCHANGED <<submitted, gui, edit, vcheck, sample, rf, srch, adding>>

\* db_initialized = success
BootFlag ==
    /\ boot.stage = "init_done"
    /\ boot' = [boot EXCEPT !.stage = IF boot.success THEN "flagged" ELSE "stopped",
                            !.db_initialized = boot.success]
    /\ UNCHANGED <<qvars, pool, lockHolder, lockq, pc, op, att, sent, slept, lastErr,
                   res, pre, txn, links, actors, faults, lpc, lleft, ui, submitted,
                   gui, edit, vcheck, sample, rf, srch, adding>>

\* event_loop.run_forever()
BootRun ==
    /\ boot.stage = "flagged"
    /\ boot' = [boot EXCEPT !.stage = "running"]
    /\ UNCHANGED <<qvars, pool, lockHolder, lockq, pc, op, att, sent, slept, lastErr,
                   res, pre, txn, links, actors, faults, lpc, lleft, ui, submitted,
                   gui, edit, vcheck, sample, rf, srch, adding>>

\* A run_async that schedules whatever the state of the start-up.
SchedulesAlways(b) == TRUE

\* db_initialized and event_loop.is_running()
Schedules(b) == b.db_initialized /\ b.stage = "running"

\* run_async(coro): None, or the future of the scheduled coroutine, whose
\* first step is the manager call.
RunAsync(c, o) ==
    /\ pc[c] = "idle"
    /\ IF Schedules(boot)
       THEN /\ Call(c, o)
            /\ boot' = [boot EXCEPT !.last = "future"]
       ELSE /\ boot' = [boot EXCEPT !.last = "None"]
            /\ UNCHANGED <<qvars, pool, lockHolder, lockq, pc, op, att, sent, slept,
                           lastErr, res, pre, txn, links, actors, faults, lpc, lleft,
                           ui>>
    /\ UNCHANGED <<submitted, gui, edit, vcheck, sample, rf, srch, adding>>

\* The same methods awaited by a caller that does not go through run_async.
DirectCall(c, o) == Call(c, o) /\ UNCHANGED xvars

NextStart ==
    \/ \E success \in BOOLEAN : BootInitPool(success)
    \/ BootFlag
    \/ BootRun
    \/ \E o \in StartCalls : RunAsync("c1", o)
    \/ \E o \in StartCalls : DirectCall("c2", o)
    \/ \E c \in Coros : ExecReply(c) /\ UNCHANGED xvars
    \/ \E c \in Coros : CommitReply(c) /\ UNCHANGED xvars
    \/ \E c \in Coros : Wake(c) /\ UNCHANGED xvars
    \/ \E c \in Coros : BeginReply(c) /\ UNCHANGED xvars
    \/ \E c \in Coros : DeleteReply(c) /\ UNCHANGED xvars
    \/ \E c \in Coros : InsertReply(c) /\ UNCHANGED xvars
    \/ \E c \in Coros : TxCommitReply(c) /\ UNCHANGED xvars
    \/ \E c \in Coros : RollbackReply(c) /\ UNCHANGED xvars
    \/ \E c \in Coros : Finish(c) /\ UNCHANGED xvars

SpecStart == Init /\ [][NextStart]_vars

(***************************************************************************)
(* get_sample_data: the ten get_all_* calls handed to asyncio.gather with  *)
(* return_exceptions=True.  The lock serves them in the order of the list, *)
(* each with the attempts of execute_query.                                *)
(***************************************************************************)
\* The order of `tasks`, which is the order of the unpacking of `tables`.
SampleTasks == <<"actors", "authors", "directors", "plays", "productions",
                 "performances", "rehearsals", "roles", "locations", "theatres">>

\* One display row per loaded row: the id and the columns.
DisplayRows(rows) == [i \in 1..Len(rows) |-> <<rows[i].id>> \o rows[i].f]

\* tables.append([]) for an exception, tables.append(result) otherwise
TableRows(result) == IF result.kind = "exception" THEN <<>> ELSE result.rows

\* A gather without return_exceptions: the first exception leaves the try
\* block and the handler returns the empty pair.
SampleOutcomeFirstErrorWins(results) ==
    IF \E i \in 1..Len(results) : results[i].kind = "exception"
    THEN <<>>
    ELSE [k \in SeqRange(SampleTasks) |->
             DisplayRows(TableRows(results[IndexOf(SampleTasks, k)]))]

\* tables_data
SampleOutcome(results) ==
    [k \in SeqRange(SampleTasks) |->
        DisplayRows(TableRows(results[IndexOf(SampleTasks, k)]))]

\* The coroutine calling get_sample_data was scheduled by run_async, so the
\* database is initialised; the check of the function is kept.
SampleStart(force_refresh) ==
    /\ sample.state = "idle"
    /\ pool = "open"
    /\ sample' = IF pool /= "open"
                 THEN [NoSample EXCEPT !.state = "returned"]
                 ELSE [NoSample EXCEPT !.state = "loading",
                                       !.force_refresh = force_refresh]
    /\ UNCHANGED <<qvars, pool, lockHolder, lockq, pc, op, att, sent, slept, lastErr,
                   res, pre, txn, links, actors, faults, lpc, lleft, ui, submitted,
                   gui, edit, vcheck, boot, rf, srch, adding>>

\* The store answers the statement of the task whose turn it is: its rows,
\* or a failure, after which execute_query retries or raises.
SampleReply ==
    /\ sample.state = "loading"
    /\ Len(sample.results) < Len(SampleTasks)
    /\ LET key == SampleTasks[Len(sample.results) + 1]
           stmt == SelectAllStmt(key, NoneCol, TRUE, sample.force_refresh)
       IN  \/ /\ sample' = [sample EXCEPT
                              !.results = Append(@, [kind |-> "rows",
                                                     rows |-> StoreSelect(stmt, table).rows]),
                              !.attempt = 0]
              /\ UNCHANGED faults
           \/ /\ faults < MaxFaults
              /\ faults' = faults + 1
              /\ sample' = IF sample.attempt = max_retries - 1
                           THEN [sample EXCEPT
                                   !.results = Append(@, [kind |-> "exception",
                                                          rows |-> <<>>]),
                                   !.attempt = 0]
                           ELSE [sample EXCEPT !.attempt = @ + 1]
    /\ UNCHANGED <<qvars, pool, lockHolder, lockq, pc, op, att, sent, slept, lastErr,
                   res, pre, txn, links, actors, lpc, lleft, ui, submitted,
                   gui, edit, vcheck, boot, rf, srch, adding>>

\* gather has all ten results: return tables_data, table_headers
SampleReturn ==
    /\ sample.state = "loading"
    /\ Len(sample.results) = Len(SampleTasks)
    /\ sample' = [sample EXCEPT !.state = "returned",
                                !.data = SampleOutcome(sample.results)]
    /\ UNCHANGED <<qvars, pool, lockHolder, lockq, pc, op, att, sent, slept, lastErr,
                   res, pre, txn, links, actors, faults, lpc, lleft, ui, submitted,
                   gui, edit, vcheck, boot, rf, srch, adding>>

\* The caller has the pair; a later call starts afresh.
SampleTaken ==
    /\ sample.state = "returned"
    /\ sample' = NoSample
    /\ UNCHANGED <<qvars, pool, lockHolder, lockq, pc, op, att, sent, slept, lastErr,
                   res, pre, txn, links, actors, faults, lpc, lleft, ui, submitted,
                   gui, edit, vcheck, boot, rf, srch, adding>>

NextSample ==
    \/ InitPool /\ UNCHANGED xvars
    \/ \E force_refresh \in BOOLEAN : SampleStart(force_refresh)
    \/ SampleReply
    \/ SampleReturn
    \/ SampleTaken

SpecSample == InitQuery /\ [][NextSample]_vars

(***************************************************************************)
(* The dashboard refresh: refresh_all_data guarded by _refresh_in_progress, *)
(* requested by on_filter_change, refresh_after_crud and the timer.  The    *)
(* store is abstracted to the number of its committed writes.              *)
(***************************************************************************)
MaxChanges == 2
FilterValues == {"all", "month", "year"}
BodyPcs == {"gather", "upcoming", "counts"}

rfOthers == <<qvars, pool, lockHolder, lockq, pc, op, att, sent, slept, lastErr, res,
              pre, txn, links, actors, lpc, lleft, ui, submitted, gui, edit, vcheck,
              boot, sample, srch, adding>>

\* A refresh that runs although one is running.
NeverSkips(flag) == FALSE

\* if _refresh_in_progress: return False
Skips(flag) == flag

\* run_async(refresh_all_data()) or run_async(refresh_all()): a coroutine is
\* handed to the loop.
Schedule(r, t) == [r EXCEPT !.task[t] = [NoRefreshTask EXCEPT !.pc = "scheduled"],
                            !.requested = [filters |-> r.filters, store |-> r.store]]

\* on_apply sets the filters and on_filter_change requests the refresh.
FilterChange(t, f) ==
    /\ rf.task[t].pc = "idle"
    /\ f /= rf.filters
    /\ rf' = Schedule([rf EXCEPT !.filters = f], t)
    /\ UNCHANGED <<rfOthers, faults>>

\* on_add: the write is committed, then refresh_after_crud().
CrudRefresh(t) ==
    /\ rf.task[t].pc = "idle"
    /\ rf.store < MaxChanges
    /\ rf' = Schedule([rf EXCEPT !.store = @ + 1], t)
    /\ UNCHANGED <<rfOthers, faults>>

\* The timer's update_dashboard_data().
TimerRefresh(t) ==
    /\ rf.task[t].pc = "idle"
    /\ rf' = [rf EXCEPT !.task[t] = [NoRefreshTask EXCEPT !.pc = "scheduled"]]
    /\ UNCHANGED <<rfOthers, faults>>

\* refresh_all_data up to its first await: the flag test, the flag set, the
\* check of the database, the copy of the filters, the six queries handed
\* to gather.
RefreshEnter(t) ==
    /\ rf.task[t].pc = "scheduled"
    /\ rf' = IF Skips(rf.flag)
             THEN [rf EXCEPT !.task[t].pc = "done", !.task[t].ret = "skipped"]
             ELSE IF pool /= "open"
             THEN [rf EXCEPT !.flag = FALSE, !.task[t].pc = "done",
                             !.task[t].ret = "uninitialised"]
             ELSE [rf EXCEPT !.flag = TRUE, !.task[t].pc = "gather",
                             !.task[t].current_filters = rf.filters,
                             !.task[t].issued = 6]
    /\ UNCHANGED <<rfOthers, faults>>

\* gather returns: metrics_data, line_chart_data are assigned and
\* get_upcoming_rehearsals is awaited.
GatherReply(t) ==
    /\ rf.task[t].pc = "gather"
    /\ rf' = [rf EXCEPT
                !.metrics_data = Computed(rf.task[t].current_filters, rf.store),
                !.line_chart_data = Computed(rf.task[t].current_filters, rf.store),
                !.task[t].pc = "upcoming", !.task[t].issued = @ + 1]
    /\ UNCHANGED <<rfOthers, faults>>

\* The end of the body: return, and `finally: _refresh_in_progress = False`.
RefreshEnd(r, t, ret) == [r EXCEPT !.flag = FALSE, !.task[t].pc = "done", !.task[t].ret = ret]

\* get_upcoming_rehearsals returns rows (the counts query follows), returns
\* none, or raises.
UpcomingReply(t) ==
    /\ rf.task[t].pc = "upcoming"
    /\ \/ /\ rf' = [rf EXCEPT
                      !.rehearsals_data = [Computed(rf.task[t].current_filters, rf.store)
                                             EXCEPT !.filled = FALSE],
                      !.task[t].pc = "counts", !.task[t].issued = @ + 1]
          /\ UNCHANGED faults
       \/ /\ rf' = RefreshEnd([rf EXCEPT !.rehearsals_data =
                                  Computed(rf.task[t].current_filters, rf.store)],
                           t, "True")
          /\ UNCHANGED faults
       \/ /\ faults < MaxFaults
          /\ faults' = faults + 1
          /\ rf' = RefreshEnd(rf, t, "False")
    /\ UNCHANGED rfOthers

\* The counts query returns and rehearsals_data is filled, or it raises.
CountsReply(t) ==
    /\ rf.task[t].pc = "counts"
    /\ \/ /\ rf' = RefreshEnd([rf EXCEPT !.rehearsals_data.filled = TRUE], t, "True")
          /\ UNCHANGED faults
       \/ /\ faults < MaxFaults
          /\ faults' = faults + 1
          /\ rf' = RefreshEnd(rf, t, "False")
    /\ UNCHANGED rfOthers

\* on_complete has run: the panel draws the mirror.
RefreshDrawn(t) ==
    /\ rf.task[t].pc = "done"
    /\ rf' = [rf EXCEPT !.task[t] = NoRefreshTask]
    /\ UNCHANGED <<rfOthers, faults>>

NextRefresh ==
    \/ \E t \in RefreshTasks, f \in FilterValues : FilterChange(t, f)
    \/ \E t \in RefreshTasks : CrudRefresh(t)
    \/ \E t \in RefreshTasks : TimerRefresh(t)
    \/ \E t \in RefreshTasks : RefreshEnter(t)
    \/ \E t \in RefreshTasks : GatherReply(t)
    \/ \E t \in RefreshTasks : UpcomingReply(t)
    \/ \E t \in RefreshTasks : CountsReply(t)
    \/ \E t \in RefreshTasks : RefreshDrawn(t)

\* The database initialised (the program after its start-up) or not.
InitRefresh ==
    /\ table = {} /\ InitQueryVars
    /\ \E p \in {"unset", "open"} :
          /\ pool = p
          /\ lockHolder = "free" /\ lockq = <<>>
          /\ pc = [c \in AllCoros |-> "idle"] /\ op = [c \in AllCoros |-> NoOp]
          /\ att = [c \in AllCoros |-> 0] /\ sent = [c \in AllCoros |-> 0]
          /\ slept = [c \in AllCoros |-> 0] /\ lastErr = [c \in AllCoros |-> NoErr]
          /\ res = [c \in AllCoros |-> NoRes] /\ pre = [c \in AllCoros |-> {}]
          /\ txn = [c \in AllCoros |-> NoTxn] /\ links = InitLinks /\ actors = Ids
          /\ faults = 0 /\ lpc = [l \in Loaders |-> "idle"]
          /\ lleft = [l \in Loaders |-> 0] /\ ui = "none" /\ submitted = <<>>
          /\ gui = NoGui /\ edit = NoEdit /\ vcheck = NoCheck /\ boot = NoBoot
          /\ sample = NoSample /\ rf = NoRefresh
          /\ srch = NoSearch /\ adding = NoAdding

SpecRefresh == InitRefresh /\ [][NextRefresh]_vars

(***************************************************************************)
(* apply_search: each search is a coroutine search_in_db that awaits the   *)
(* search, the follow-up loads of convert_results_to_grid_format when rows *)
(* were found, and get_sample_data, and then posts its grid update.  Every *)
(* awaited manager call queues on the lock; the queue holds the owners of  *)
(* the calls in the order the lock serves them.                            *)
(***************************************************************************)
SearchTables == {"actors", "roles", "productions"}

\* The loads convert_results_to_grid_format awaits for a table.
FollowUps(table_name) ==
    CASE table_name = "productions" -> 4
      [] table_name = "roles" -> 1
      [] OTHER -> 0

srchOthers == <<qvars, pool, lockHolder, lockq, pc, op, att, sent, slept, lastErr, res,
                pre, txn, links, actors, lpc, lleft, ui, submitted, gui, edit, vcheck,
                boot, sample, rf, adding>>

Enqueue(queue, t, n) == queue \o [i \in 1..n |-> t]

\* run_async(search_in_db()): the coroutine runs up to its first await, the
\* search or load call.  B is the search submitted after A.
SubmitSearch(t, table_name) ==
    /\ pool = "open"
    /\ srch.task[t].stage = "idle"
    /\ t = "B" => srch.task["A"].stage /= "idle"
    /\ srch.table_name \in {"none", table_name}
    /\ srch' = [srch EXCEPT !.table_name = table_name,
                            !.queue = Enqueue(@, t, 1),
                            !.task[t] = [NoSearchTask EXCEPT !.stage = "search",
                                                             !.pending = 1]]
    /\ UNCHANGED <<srchOthers, faults>>

\* wx.CallAfter(update_with_results), or the empty grid of the except branch:
\* the GUI thread applies the updates in the order they were posted.
PostUpdate(s, t) == [s EXCEPT !.applied = Append(@, t), !.grid = t,
                              !.task[t].stage = "done", !.task[t].pending = 0]

\* The coroutine goes on after its awaited call (or gather) has returned.
Continue(s, t, found) ==
    LET k == IF s.task[t].stage = "search"
             THEN (IF found THEN FollowUps(s.table_name) ELSE 0)
             ELSE s.task[t].follow - 1
    IN  IF s.task[t].stage = "sample" THEN PostUpdate(s, t)
        ELSE IF k > 0
        THEN [s EXCEPT !.task[t].stage = "convert", !.task[t].follow = k,
                       !.task[t].found = found \/ @,
                       !.task[t].pending = 1, !.queue = Enqueue(@, t, 1)]
        ELSE [s EXCEPT !.task[t].stage = "sample", !.task[t].follow = 0,
                       !.task[t].found = found \/ @,
                       !.task[t].pending = Len(SampleTasks),
                       !.queue = Enqueue(@, t, Len(SampleTasks))]

\* The lock serves the call at the head of the queue: the store answers it,
\* or fails it on every attempt.  A failed search or load raises in
\* search_in_db; a failed load of get_sample_data is kept inside it.
Serve ==
    /\ srch.queue /= <<>>
    /\ LET t == Head(srch.queue)
           rest == [srch EXCEPT !.queue = Tail(@), !.task[t].pending = @ - 1]
       IN  \/ /\ \E found \in BOOLEAN :
                    /\ rest.task[t].stage /= "search" => ~found
                    /\ srch' = IF rest.task[t].pending = 0
                               THEN Continue(rest, t, found) ELSE rest
              /\ UNCHANGED faults
           \/ /\ faults < MaxFaults
              /\ faults' = faults + 1
              /\ srch' = IF rest.task[t].stage = "sample"
                         THEN (IF rest.task[t].pending = 0
                               THEN Continue(rest, t, FALSE) ELSE rest)
                         ELSE PostUpdate(rest, t)
    /\ UNCHANGED srchOthers

NextSearch ==
    \/ InitPool /\ UNCHANGED xvars
    \/ \E t \in SearchTasks, table_name \in SearchTables : SubmitSearch(t, table_name)
    \/ Serve

SpecSearch == Init /\ [][NextSearch]_vars

(***************************************************************************)
(* on_add for plays and productions: add_play_with_authors and             *)
(* add_production_with_cast insert the entity, replace its associations    *)
(* and, when that raises, delete the entity again.                         *)
(***************************************************************************)
AddedEntities == {"play", "production"}

\* The rows before the add: plays and productions 1 and 2, one row in every
\* other table.
RowsBeforeAdd ==
    ExistingRows \cup {[id |-> 2, f |-> <<t, <<"old">>>>] : t \in AddedEntities}

\* What the dialog returns: the entity's fields and its authors or cast.
AddedFields(entity) ==
    IF entity = "play"
    THEN [name : {"add_play"}, owner : {0}, members : {{}},
          title : {<<"a", "b">>, <<>>}, year_written : {<<>>}]
    ELSE [name : {"add_production"}, owner : {0}, members : {{}},
          title : {<<"a", "b">>}, production_date : {<<>>, <<2026, 11, 3>>}]

AddedMembers(entity) ==
    IF entity = "play" THEN SUBSET Ids ELSE SUBSET {<<1, 1>>, <<2, 1>>}

SetOpOf(entity) == IF entity = "play" THEN "set_play_authors" ELSE "set_production_cast"
DeleteOpOf(entity) == IF entity = "play" THEN "delete_play" ELSE "delete_production"

\* cur.lastrowid of the INSERT: the highest id of the entity's table.
LastRowId(rows, entity) ==
    LET ids == {r.id : r \in {x \in rows : x.f[1] = entity}}
    IN  CHOOSE i \in ids : \A j \in ids : j <= i

\* The dialog is confirmed: the coroutine is scheduled and awaits add_play or
\* add_production.
AddStart(c, entity, fields, members) ==
    /\ adding.state = "none"
    /\ pool = "open"
    /\ Call(c, fields)
    /\ adding' = [state |-> "running", entity |-> entity, stage |-> "add", new_id |-> 0,
                  members |-> members, call |-> NoOp]
    /\ UNCHANGED <<submitted, gui, edit, vcheck, boot, sample, rf, srch>>

\* The coroutine's next `await db_manager. ...`.
AddCall(c) ==
    /\ adding.state = "running"
    /\ adding.call /= NoOp
    /\ Call(c, adding.call)
    /\ adding' = [adding EXCEPT !.call = NoOp]
    /\ UNCHANGED <<submitted, gui, edit, vcheck, boot, sample, rf, srch>>

\* The awaited call is over: after the insert the association replace
\* follows (a production without cast returns at once); after a failed
\* replace the delete of the new row follows; after the delete, or when the
\* insert itself raised, the coroutine raises.
AddAwaited(c) ==
    /\ adding.state = "running"
    /\ adding.call = NoOp
    /\ pc[c] = "done"
    /\ LET raised == res[c].kind = "raise"
           new_id == LastRowId(table, adding.entity)
       IN  IF adding.stage = "add" /\ ~raised
              /\ ~(adding.entity = "production" /\ adding.members = {})
           THEN /\ adding' = [adding EXCEPT
                                !.stage = "set", !.new_id = new_id,
                                !.call = [name |-> SetOpOf(adding.entity),
                                          owner |-> new_id, members |-> adding.members]]
                /\ ui' = ui
                /\ ClearFrame(c, "idle")
           ELSE IF adding.stage = "set" /\ raised
           THEN /\ adding' = [adding EXCEPT
                                !.stage = "delete",
                                !.call = [name |-> DeleteOpOf(adding.entity),
                                          owner |-> adding.new_id, members |-> {}]]
                /\ ui' = ui
                /\ ClearFrame(c, "idle")
           ELSE IF adding.stage = "delete" \/ raised
           THEN /\ adding' = [adding EXCEPT !.state = "raised"]
                /\ ui' = "add failed"
                /\ ClearFrame(c, "over")
           ELSE /\ adding' = [adding EXCEPT !.state = "returned",
                                            !.new_id = IF adding.stage = "add"
                                                       THEN new_id ELSE @]
                /\ ui' = "added"
                /\ ClearFrame(c, "over")
    /\ UNCHANGED <<qvars, pool, lockHolder, lockq, txn, links, actors, faults, lpc,
                   lleft, submitted, gui, edit, vcheck, boot, sample, rf, srch>>

\* Another client of the store deletes actor 2 while the dialog is open.
ActorRemovedElsewhere ==
    /\ 2 \in actors
    /\ DeleteActorAllowed(links, 2)
    /\ actors' = actors \ {2}
    /\ UNCHANGED <<qvars, pool, lockHolder, lockq, pc, op, att, sent, slept, lastErr,
                   res, pre, txn, links, faults, lpc, lleft, ui, xvars>>

NextAdd ==
    \/ InitPool /\ UNCHANGED xvars
    \/ ActorRemovedElsewhere
    \/ \E entity \in AddedEntities :
          \E fields \in AddedFields(entity), members \in AddedMembers(entity) :
             AddStart("c1", entity, fields, members)
    \/ AddCall("c1")
    \/ AddAwaited("c1")
    \/ ExecReply("c1") /\ UNCHANGED xvars
    \/ CommitReply("c1") /\ UNCHANGED xvars
    \/ Wake("c1") /\ UNCHANGED xvars
    \/ BeginReply("c1") /\ UNCHANGED xvars
    \/ DeleteReply("c1") /\ UNCHANGED xvars
    \/ InsertReply("c1") /\ UNCHANGED xvars
    \/ TxCommitReply("c1") /\ UNCHANGED xvars
    \/ RollbackReply("c1") /\ UNCHANGED xvars

InitAdd == table = RowsBeforeAdd /\ InitQueryVars /\ InitManager

SpecAdd == InitAdd /\ [][NextAdd]_vars

(***************************************************************************)
(* Properties of the query composer, checked under SpecQuery.              *)
(***************************************************************************)
ServedConfig == _get_table_config(qcall.key)

Served == qcall.op \in {"list", "search"} /\ HasTableConfig(qcall.key)

\* The expression after ORDER BY in the statement being served.
OrderToken ==
    LET o == IndexOf(qstmt.sql, "ORDER BY")
    IN  IF o = 0 \/ o = Len(qstmt.sql) THEN "" ELSE qstmt.sql[o + 1]

\* v contains t as a substring, letters compared without regard to case.
Contains(v, t) ==
    \E i \in 0..(Len(v) - Len(t)) :
        \A j \in 1..Len(t) : Lower(v[i + j]) = Lower(t[j])

\* C4: for each of the ten entities and every sort-column request (None, the
\* empty string, a declared name, an undeclared name), List and Search return
\* rows, and the ORDER BY expression is orderable[c] when c is declared for
\* the entity and orderable[default_sort] otherwise, never the raw request.
SortRequestNeverFails ==
    Served =>
        /\ qres.kind = "rows"
        /\ OrderToken = IF qcall.sort_column \in DOMAIN ServedConfig.orderable
                        THEN ServedConfig.orderable[qcall.sort_column]
                        ELSE ServedConfig.orderable[ServedConfig.default_sort]
        /\ OrderToken /= qcall.sort_column

SortRequestFellBack ==
    /\ qcall.op = "search"
    /\ qcall.key = "theatres"
    /\ qcall.sort_column = "1; DROP TABLE actor"
    /\ qcall.search_text = <<"a">>
    /\ qres.kind = "rows"
    /\ OrderToken = "t.name"

\* C5: a Search with the empty text or with None hands execute_query the very
\* statement List builds for the same entity, sort column and direction, and
\* so returns List's rows in List's order: every row of the source.
EmptySearchIsList ==
    (Served /\ qcall.op = "search" /\ TextIsEmpty(qcall.search_text)) =>
        LET listed == SelectAllStmt(qcall.key, qcall.sort_column, qcall.sort_ascending,
                                    qcall.force_refresh)
        IN  /\ qstmt = listed
            /\ qres = StoreSelect(listed, table)
            /\ qres.kind = "rows"
            /\ Len(qres.rows) = Cardinality(table)

EmptySearchListedAll ==
    /\ qcall.op = "search"
    /\ qcall.search_text = <<>>
    /\ qcall.key = "theatres"
    /\ qcall.sort_column = "city"
    /\ ~qcall.sort_ascending
    /\ qres.kind = "rows"
    /\ Len(qres.rows) = NumRows
    /\ \E r1, r2 \in table : r1.id < r2.id /\ r1.f /= r2.f

\* C6: every row a Search with a non-empty text t returns has a searchable
\* column that contains t itself, letters compared without regard to case.
SearchReturnsLiteralMatchesOnly ==
    (Served /\ qcall.op = "search" /\ ~TextIsEmpty(qcall.search_text)
        /\ qres.kind = "rows") =>
        \A i \in 1..Len(qres.rows) :
            \E e \in SeqRange(ServedConfig.searchable) :
                Contains(ColValue(ServedConfig, qres.rows[i], e), qcall.search_text)

\* C7: the SQL text of a Search does not depend on the search text (any
\* other non-empty text gives the same SQL), the text is bound as '%text%'
\* once per searchable column so that parameters and placeholders agree in
\* number, and the ORDER BY expression is a declared orderable expression.
CallerInputStaysOutOfSql ==
    (Served /\ qcall.op = "search" /\ ~TextIsEmpty(qcall.search_text)) =>
        /\ \A t \in SearchTexts :
              ~TextIsEmpty(t) =>
                 qstmt.sql = SearchStmt(qcall.key, t, qcall.sort_column,
                                        qcall.sort_ascending, qcall.force_refresh).sql
        /\ Len(qstmt.args) = Len(ServedConfig.searchable)
        /\ Len(qstmt.args) = Placeholders(qstmt.sql)
        /\ \A i \in 1..Len(qstmt.args) : qstmt.args[i] = Pattern(qcall.search_text)
        /\ OrderToken \in OrderExprs(ServedConfig)

MetacharactersWereBound ==
    /\ qcall.op = "search"
    /\ qcall.key = "locations"
    /\ qcall.search_text = <<"%", "_">>
    /\ qcall.sort_column = "1; DROP TABLE actor"
    /\ Len(qstmt.args) = 6
    /\ qstmt.args[6] = <<"%", "%", "_", "%">>
    /\ qres.kind = "rows"

\* C11: List or Search on a name that is not registered fails with the
\* configuration-not-found ValueError: no statement is built, nothing is sent
\* to the store (so nothing is retried) and the lock stays free.
UnknownEntityFailsAtOnce ==
    (qcall.op \in {"list", "search"} /\ ~HasTableConfig(qcall.key)) =>
        /\ qres.kind = "ValueError"
        /\ qres.error = "config not found"
        /\ qstmt = NoStmt
        /\ qlog = <<>>
        /\ lockHolder = "free"
        /\ lockq = <<>>

UnknownEntitySearched ==
    /\ qcall.op = "search"
    /\ qcall.key = "tickets"
    /\ qcall.search_text = <<"a">>
    /\ qcall.force_refresh
    /\ qres.kind = "ValueError"
    /\ qlog = <<>>

\* The ORDER BY expression the call's sort column resolves to.
ResolvedExpr ==
    IF qcall.sort_column \in DOMAIN ServedConfig.orderable
    THEN ServedConfig.orderable[qcall.sort_column]
    ELSE ServedConfig.orderable[ServedConfig.default_sort]

\* The rows of the source a Search for the call's text has to return.
Filtered ==
    {r \in table : \E e \in SeqRange(ServedConfig.searchable) :
                      Like(ColValue(ServedConfig, r, e), Pattern(qcall.search_text))}

\* C17: List returns every row of the source, Search every row its text
\* matches, each once, ordered by the resolved column: non-decreasing when
\* ascending, non-increasing when descending.
RowsComeOrdered ==
    (Served /\ qres.kind = "rows") =>
        LET rows == qres.rows
            all == qcall.op = "list" \/ TextIsEmpty(qcall.search_text)
        IN  /\ SeqRange(rows) = IF all THEN table ELSE Filtered
            /\ Len(rows) = Cardinality(SeqRange(rows))
            /\ \A i, j \in 1..Len(rows) :
                  i < j =>
                     IF qcall.sort_ascending
                     THEN ~KeyLess(ServedConfig, ResolvedExpr, rows[j], rows[i])
                     ELSE ~KeyLess(ServedConfig, ResolvedExpr, rows[i], rows[j])

ParisOsloLima ==
    /\ table = OsloParisLima
    /\ qcall.op = "list"
    /\ qcall.key = "theatres"
    /\ qcall.sort_column = "city"
    /\ ~qcall.sort_ascending
    /\ qres.kind = "rows"
    /\ [i \in 1..Len(qres.rows) |-> qres.rows[i].f[2]]
          = << <<"P", "a", "r", "i", "s">>, <<"O", "s", "l", "o">>, <<"L", "i", "m", "a">> >>

\* C19: with force_refresh set, a SELECT is preceded by the cache bypass in
\* the same attempt, and whether the bypass succeeded or failed the SELECT
\* goes out in that attempt and its rows are returned; a statement that is
\* no SELECT goes out alone, as without the flag.
ForceFreshIsBestEffort ==
    (qcall.op /= "none" /\ qstmt /= NoStmt /\ qcall.force_refresh) =>
        IF IsSelectSql(qstmt.sql)
        THEN /\ Len(qlog) = 2
             /\ qlog[1].cmd = CacheBypass
             /\ qlog[2] = [attempt |-> qlog[1].attempt, cmd |-> "statement", ok |-> TRUE]
             /\ qres = StoreSelect(qstmt, table)
             /\ qres.kind = "rows"
        ELSE /\ qlog = <<[attempt |-> 0, cmd |-> "statement", ok |-> TRUE]>>
             /\ qres.kind = "lastrowid"

BypassFailureSwallowed ==
    /\ qcall.op = "list"
    /\ qcall.force_refresh
    /\ Len(qlog) = 2
    /\ ~qlog[1].ok
    /\ qres.kind = "rows"
    /\ Len(qres.rows) = NumRows

(***************************************************************************)
(* Properties of the coroutines, checked under Spec and SpecExport.        *)
(***************************************************************************)
\* The get_* method that reads what a set_* method replaces.
ReaderOf(name) ==
    CASE name = "set_rehearsal_actors" -> "get_actors_for_rehearsal"
      [] name = "set_play_authors" -> "get_authors_for_play"
      [] name = "set_author_plays" -> "get_plays_for_author"
      [] OTHER -> "get_cast_for_production"

\* Where a set_* call stands once it holds the lock.
TxPcs == {"begin", "delete", "insert", "tx_commit", "rollback"}

\* Coroutine r has read the owner's associations that coroutine w replaces.
ReadBeside(w, r) ==
    /\ IsSet(op[w])
    /\ pc[w] \in TxPcs \cup {"done"}
    /\ pc[w] = "done" => res[w].error.type /= "RuntimeError"
    /\ pc[r] = "done"
    /\ op[r].name = ReaderOf(op[w].name)
    /\ op[r].owner = op[w].owner
    /\ res[r].kind = "rows"

\* The call of c went through the pool check and raised.
RaisedFromStore(c) ==
    pc[c] = "done" /\ res[c].kind = "raise" /\ res[c].error.type /= "RuntimeError"

\* C1: a read of an owner's associations submitted beside a replacement of
\* that owner's set returns the complete old set or the complete new set,
\* and the old set as long as the replacement has not returned: never the
\* emptied intermediate state, never a mix.
ReadsSeeOldOrNewSet ==
    \A w, r \in Coros :
        ReadBeside(w, r) =>
            /\ res[r].rows \in {pre[w], op[w].members}
            /\ pc[w] /= "done" => res[r].rows = pre[w]

ReadWhileReplacing ==
    \E w, r \in Coros :
        /\ ReadBeside(w, r)
        /\ pc[w] = "tx_commit"
        /\ txn[w].del /= {}
        /\ txn[w].ins /= {}
        /\ txn[w].ins \cap txn[w].del = {}
        /\ res[r].rows = pre[w]

\* C2: the step on which a set_* call commits and returns leaves the store
\* such that a read of the owner's associations gives exactly the new set,
\* whatever the previous set was and also when the new set is empty.
ReplaceThenReadGivesNewSet ==
    [][\A c \in Coros :
          (pc[c] = "tx_commit" /\ pc'[c] = "done" /\ res'[c].kind = "return") =>
              ReadAssoc(links', op[c].name, op[c].owner) = op[c].members]_vars

ReplacedDisjointSet ==
    \E c \in Coros :
        /\ pc[c] = "done"
        /\ IsSet(op[c])
        /\ res[c].kind = "return"
        /\ pre[c] /= {}
        /\ op[c].members /= {}
        /\ pre[c] \cap op[c].members = {}
        /\ ReadAssoc(links, op[c].name, op[c].owner) = op[c].members

\* C3: a set_* call whose delete, bulk insert or commit failed raises that
\* step's error, and (no other call having run since) a read of the owner's
\* associations gives the set from before the call.
FailedReplaceReraisesAndRestores ==
    \A c \in Coros :
        (RaisedFromStore(c) /\ IsSet(op[c])
            /\ lastErr[c].at[1] \in {"delete", "insert", "commit"}
            /\ \A d \in Coros \ {c} : pc[d] = "idle") =>
            /\ res[c].error = lastErr[c]
            /\ ReadAssoc(links, op[c].name, op[c].owner) = pre[c]

RetryDiscipline ==
    \A c \in Coros :
        op[c].name \in GetOps \cup {"delete_actor"} =>
            /\ sent[c] <= max_retries
            /\ sent[c] >= 1 => slept[c] = sent[c] - 1
            /\ pc[c] = "sleep" => sent[c] < max_retries
            /\ RaisedFromStore(c) =>
                  /\ sent[c] = max_retries
                  /\ res[c].error = lastErr[c]
                  /\ res[c].error.at[2] = max_retries - 1
            /\ (pc[c] = "done" /\ res[c].kind /= "raise") =>
                  /\ sent[c] >= 1
                  /\ sent[c] > 1 => lastErr[c].at[2] = sent[c] - 2
                  /\ sent[c] = 1 => lastErr[c] = NoErr

RetriesExhausted ==
    \E c \in Coros :
        /\ pc[c] = "done"
        /\ IsSelect(op[c])
        /\ sent[c] = 3
        /\ slept[c] = 2
        /\ res[c] = Raise(Err("OperationalError", "exec", 2))

\* C10: a delete refused by a foreign key (no transient failure being
\* involved) is sent to the store once, and the delete handler shows the
\* 'referenced elsewhere' message.
IntegrityErrorNotRetried ==
    \A c \in Coros :
        (RaisedFromStore(c) /\ op[c].name = "delete_actor"
            /\ res[c].error.type = "IntegrityError" /\ faults = 0) =>
            /\ sent[c] = 1
            /\ OnDeleteMessage(res[c]) = "cannot delete: referenced elsewhere"

\* The rows a replacement for owner o.owner may touch: the owner's rows of
\* the table the operation replaces.
Owns(o, r) ==
    CASE o.name = "set_production_cast" -> r[1] = "actor_role" /\ r[3] = o.owner
      [] o.name = "set_rehearsal_actors" -> r[1] = "actor_rehearsal" /\ r[3] = o.owner
      [] o.name = "set_play_authors" -> r[1] = "author_play" /\ r[3] = o.owner
      [] o.name = "set_author_plays" -> r[1] = "author_play" /\ r[2] = o.owner
      [] OTHER -> FALSE

\* C20: the association rows change only in the step that commits one
\* owner's replacement, and that step leaves every row of every other owner
\* (and every row of the other tables) as it was; a replacement that fails
\* changes no row at all.
ReplaceTouchesOwnRowsOnly ==
    [][links' /= links =>
         \E c \in Coros :
            /\ IsSet(op[c])
            /\ pc[c] = "tx_commit"
            /\ res'[c].kind = "return"
            /\ {r \in links' : ~Owns(op[c], r)} = {r \in links : ~Owns(op[c], r)}]_vars

ReplacedBesideOtherOwners ==
    \E c \in Coros :
       /\ op[c] = [name |-> "set_play_authors", owner |-> 1, members |-> {2}]
       /\ pc[c] = "done"
       /\ res[c].kind = "return"
       /\ {r \in links : r[1] = "author_play"}
             = {<<"author_play", 2, 1>>, <<"author_play", 2, 2>>}
       /\ <<"actor_production", 1, 1>> \in links

(***************************************************************************)
(* Properties of add_* and update_*, checked under SpecWrite.              *)
(***************************************************************************)
\* C12: an add_* or update_* call one of whose validation rules fails ends
\* with a ValueError without having sent a statement: no attempt, no retry,
\* no lock taken, and the entity tables are as they were.
ValidationFailureStopsBeforeStore ==
    \A c \in Coros :
       (IsWrite(op[c]) /\ FALSE \in Rules(op[c])) =>
           /\ pc[c] = "done"
           /\ res[c] = Raise(Err("ValueError", "validate", 0))
           /\ sent[c] = 0
           /\ att[c] = 0
           /\ slept[c] = 0
           /\ lockHolder /= c
           /\ table = ExistingRows

InvalidHallNameRejected ==
    /\ pool = "open"
    /\ op["c1"].name = "add_location"
    /\ op["c1"].theatre_id = <<1>>
    /\ op["c1"].hall_name = <<" ", "a", " ">>
    /\ op["c1"].capacity = <<1>>
    /\ res["c1"].kind = "raise"
    /\ res["c1"].error.type = "ValueError"
    /\ sent["c1"] = 0
    /\ table = ExistingRows

\* The operation of coroutine c was rejected by the local validation.
Rejected(c) == pc[c] = "done" /\ res[c].kind = "raise" /\ res[c].error.type = "ValueError"

\* C13: add_actor and update_actor reject a full name of fewer than three
\* characters after trimming, add_play and update_play the years 500 and
\* 3000, add_performance and update_performance a missing location_id,
\* add_location and update_location a capacity of zero or below.
ValidationRejectsExamples ==
    \A c \in Coros :
       LET o == op[c]
       IN  /\ (o.name \in {"add_actor", "update_actor"} /\ Len(Strip(o.full_name)) < 3)
                 => Rejected(c)
           /\ (o.name \in {"add_play", "update_play"}
                 /\ o.year_written \in {<<500>>, <<3000>>})
                 => Rejected(c)
           /\ (o.name \in {"add_performance", "update_performance"}
                 /\ o.location_id = <<>>)
                 => Rejected(c)
           /\ (o.name \in {"add_location", "update_location"}
                 /\ o.capacity /= <<>> /\ o.capacity[1] <= 0)
                 => Rejected(c)

ZeroCapacityRejected ==
    /\ op["c1"].name = "update_location"
    /\ op["c1"].theatre_id = <<1>>
    /\ op["c1"].hall_name = <<"a", "b">>
    /\ op["c1"].capacity = <<0>>
    /\ Rejected("c1")
    /\ table = ExistingRows

(***************************************************************************)
(* Order of the statements of one task, checked under SpecTask.            *)
(***************************************************************************)
\* The task's statement has reached the store at least once.
Begun(t) ==
    IF t \in Loaders THEN lpc[t] /= "idle" ELSE pc[t] \in InFlightPcs \cup {"sleep"}

\* The task's statement is through, all its attempts included.
Through(t) ==
    IF t \in Loaders THEN lpc[t] \in {"done", "failed", "closed"}
    ELSE pc[t] \in {"done", "over"}

InOrder(tasks) ==
    \A i, j \in 1..Len(submitted) :
       (/\ i < j
        /\ submitted[i] \in tasks
        /\ submitted[j] \in tasks
        /\ TaskOf(submitted[i]) = TaskOf(submitted[j])
        /\ Begun(submitted[j]))
          => Through(submitted[i])

GuiThreadNeverBlocks == gui.waiting = "none"

\* C16: once the GUI thread's wait on a coroutine has expired, the handler
\* is no longer waiting on it, the coroutine is not cancelled, and it still
\* runs to its end on the background loop.
TimeoutLeavesOperationRunning ==
    \A c \in Coros :
       /\ [](c \in gui.abandoned => (gui.waiting /= c /\ pc[c] /= "cancelled"))
       /\ (c \in gui.abandoned) ~> (pc[c] \in {"done", "over"})

DeleteCommittedAfterTimeout ==
    \E c \in Coros :
       /\ c \in gui.abandoned
       /\ ui = "timed out"
       /\ op[c].name = "delete_actor"
       /\ pc[c] = "done"
       /\ res[c].kind = "lastrowid"
       /\ op[c].owner \notin actors

(***************************************************************************)
(* The actor edit, checked under SpecEdit.                                 *)
(***************************************************************************)
\* Every association row of actor a.
AssociationsOf(rows, a) == {r \in rows : RefersToActor(r, a)}

\* C18: an actor edit that fails part-way leaves the actor's roles,
\* rehearsals and productions as they were before the edit.
FailedEditKeepsAssociations ==
    edit.state = "raised" =>
        AssociationsOf(links, edit.actor) = AssociationsOf(edit.before, edit.actor)


\* C21: every row of the entity's source in which some searchable column
\* contains the non-empty search text, letters compared without regard to
\* case, is among the rows the Search returns.
SearchFindsEveryMatch ==
    (Served /\ qcall.op = "search" /\ ~TextIsEmpty(qcall.search_text)
        /\ qres.kind = "rows") =>
        \A r \in table :
            (\E e \in SeqRange(ServedConfig.searchable) :
                Contains(ColValue(ServedConfig, r, e), qcall.search_text))
            => \E i \in 1..Len(qres.rows) : qres.rows[i] = r


\* C22: the registry declares exactly the ten entities, each entity's
\* default_sort is a key of its orderable map, and so every List and Search
\* of a declared entity is ordered by one of its declared expressions, also
\* when the requested column falls back to the default.
RegistryDefaultsAreOrderable ==
    /\ DOMAIN TABLE_CONFIG = TableKeys
    /\ Cardinality(TableKeys) = 10
    /\ \A k \in TableKeys :
          _get_table_config(k).default_sort \in DOMAIN _get_table_config(k).orderable
    /\ Served => /\ qres.kind = "rows"
                 /\ OrderToken \in OrderExprs(ServedConfig)

ListFellBackToDefault ==
    /\ qcall.op = "list"
    /\ qcall.key = "plays"
    /\ qcall.sort_column = "city"
    /\ qres.kind = "rows"
    /\ OrderToken = "p.id"


\* C23: validate_capacity accepts an integer exactly when it lies in
\* 1..100000 and validate_year exactly when it lies in 1000..current year + 10;
\* an absent year or capacity (None or the empty string) is accepted;
\* validate_full_name accepts only names of trimmed length 3..255 and
\* validate_title only titles of trimmed length 2..255.
RangeValidatorsKeepInclusiveBounds ==
    LET v == vcheck.value
        n == Len(Strip(v.text))
    IN  /\ (vcheck.validator = "validate_capacity" /\ v.kind = "int") =>
              (vcheck.ok <=> (1 <= v.n /\ v.n <= 100000))
        /\ (vcheck.validator = "validate_year" /\ v.kind = "int") =>
              (vcheck.ok <=> (1000 <= v.n /\ v.n <= CurrentYear + 10))
        /\ (vcheck.validator \in {"validate_capacity", "validate_year"}
              /\ (v.kind = "None" \/ (v.kind = "str" /\ v.text = <<>>))) => vcheck.ok
        /\ (vcheck.validator = "validate_full_name" /\ vcheck.ok) =>
              (v.kind = "str" /\ 3 <= n /\ n <= 255)
        /\ (vcheck.validator = "validate_title" /\ vcheck.ok) =>
              (v.kind = "str" /\ 2 <= n /\ n <= 255)

YearAtUpperLimitAccepted ==
    /\ vcheck.validator = "validate_year"
    /\ vcheck.value.kind = "int"
    /\ vcheck.value.n = CurrentYear + 10
    /\ vcheck.ok


\* C29: while the manager has no pool, no statement is at the store or has
\* changed it, nobody holds or awaits the lock, and every execute_query and
\* set_* call that has ended has raised the RuntimeError of the pool check;
\* and while db_initialized is false or the loop is not running, run_async
\* has returned None only and its coroutine has not started.
NothingReachesStoreWithoutPool ==
    /\ pool = "unset" =>
          /\ lockHolder = "free" /\ lockq = <<>>
          /\ links = InitLinks /\ actors = Ids /\ faults = 0
          /\ \A c \in Coros :
                /\ sent[c] = 0
                /\ pc[c] \in {"idle", "done", "over"}
                /\ pc[c] = "done" => res[c] = Raise(Err("RuntimeError", "pool", 0))
    /\ ~(boot.db_initialized /\ boot.stage = "running") =>
          /\ boot.last /= "future"
          /\ pc["c1"] = "idle"

RefusedBothWays ==
    /\ pool = "unset"
    /\ boot.stage = "stopped"
    /\ boot.last = "None"
    /\ pc["c2"] = "done"
    /\ op["c2"].name = "set_production_cast"
    /\ res["c2"].kind = "raise"


\* A call that awaits the store, the lock or its sleep between attempts.
Underway(c) == pc[c] \in InFlightPcs \cup {"wait", "sleep"}

\* C24: a call that has ended holds the lock no longer, whether it returned,
\* gave up after its retries or rolled back; and when every store call is
\* answered, every call under way (also one waiting for the lock)
\* eventually ends.
LockAlwaysReleased ==
    /\ [](\A c \in Coros : pc[c] \in {"idle", "done", "over"} => lockHolder /= c)
    /\ []((\A c \in Coros : ~Underway(c)) => (lockHolder = "free" /\ lockq = <<>>))
    /\ \A c \in Coros : Underway(c) ~> pc[c] = "done"

WaiterServedAfterRollback ==
    /\ pc["c1"] = "done"
    /\ op["c1"].name = "set_rehearsal_actors"
    /\ res["c1"].kind = "raise"
    /\ lockHolder = "c2"
    /\ pc["c2"] \in InFlightPcs


\* C30: what get_sample_data returns holds all ten tables; a table whose
\* loading failed after its retries has no rows, every other table has one
\* display row per row of its source, and the call has not raised.
SampleIsolatesTableFailures ==
    sample.state = "returned" =>
        /\ ~sample.raised
        /\ DOMAIN sample.data = SeqRange(SampleTasks)
        /\ Cardinality(DOMAIN sample.data) = 10
        /\ \A i \in 1..Len(SampleTasks) :
              IF sample.results[i].kind = "exception"
              THEN sample.data[SampleTasks[i]] = <<>>
              ELSE /\ Len(sample.data[SampleTasks[i]]) = Cardinality(table)
                   /\ {sample.data[SampleTasks[i]][j][1] :
                          j \in 1..Cardinality(table)} = {r.id : r \in table}

OnlyPlaysFailedToLoad ==
    /\ sample.state = "returned"
    /\ sample.results[4].kind = "exception"
    /\ sample.data["plays"] = <<>>
    /\ \A k \in SeqRange(SampleTasks) \ {"plays"} : Len(sample.data[k]) = NumRows


\* C25: at most one body of refresh_all_data is executing, the flag
\* _refresh_in_progress is TRUE exactly while one is, a call that found a
\* refresh running has returned without issuing a query, and a refresh that
\* ended (by success, by an error or by the early return for a database
\* that is not initialised) has left the flag FALSE unless another body
\* runs.
OneRefreshAtATime ==
    LET running == {t \in RefreshTasks : rf.task[t].pc \in BodyPcs}
    IN  /\ Cardinality(running) <= 1
        /\ rf.flag <=> running /= {}
        /\ \A t \in RefreshTasks :
              /\ rf.task[t].ret = "skipped" => rf.task[t].issued = 0
              /\ rf.task[t].ret = "uninitialised" => rf.task[t].issued = 0

SkippedWhileOtherRuns ==
    /\ rf.task["r2"].ret = "skipped"
    /\ rf.task["r1"].pc = "counts"
    /\ rf.flag

\* C26: once no refresh is scheduled or running (and no query has failed),
\* the mirror has been computed with the filters of the latest request and
\* with store contents no older than that request.
RefreshRequestNeverLost ==
    (/\ pool = "open" /\ faults = 0 /\ ~rf.flag
     /\ \A t \in RefreshTasks : rf.task[t].pc \in {"idle", "done"}) =>
        \A m \in {rf.metrics_data, rf.line_chart_data, rf.rehearsals_data} :
            /\ m.filters = rf.requested.filters
            /\ m.store >= rf.requested.store


\* C27: the grid update of search A, submitted first, is never applied after
\* the update of search B, and once both searches are over the grid shows
\* the result of B (stated for the runs in which no call has failed).
LaterSearchWins ==
    faults = 0 =>
        /\ ~(Len(srch.applied) = 2 /\ srch.applied[1] = "B")
        /\ (\A t \in SearchTasks : srch.task[t].stage = "done") => srch.grid = "B"


\* C28: after an add of a play with authors or a production with cast has
\* raised, the store holds neither a row of the new entity nor an
\* association row of it.
FailedAddLeavesNothing ==
    adding.state = "raised" =>
        /\ table = RowsBeforeAdd
        /\ adding.new_id /= 0 =>
              OwnerRows(links, SetOpOf(adding.entity), adding.new_id) = {}

====
